---- MODULE Spec2Model ----
(***************************************************************************)
(* State-machine model of the mirdb / tomatodb storage engine:             *)
(*   - the write-ahead log (tomatodb-server/src/wal.rs),                   *)
(*   - the multi-level SSTable catalog (mirdb-server/src/sstable_reader.rs)*)
(*   - a built SSTable and its reader (sstable crate).                     *)
(* Several specifications share the module: Spec drives the WAL,           *)
(* CatalogSpec the catalog, TableSpec a built SSTable; each leaves the     *)
(* other components' variables alone.                                      *)
(***************************************************************************)
EXTENDS Integers, Sequences, FiniteSets, TLC

(***************************************************************************)
(* Bounds of the model.                                                    *)
(***************************************************************************)
\* WAL file numbers range over 0 .. MaxFileNum-1
MaxFileNum == 2
\* longest segment list of a WAL object
MaxSegs == 3
\* longest segment file, in bytes
MaxFileLen == 5
\* most appends acknowledged into one file
MaxAcked == 2
\* largest n passed to truncate
MaxTruncate == 2
\* WAL keys are the bytes 1 .. NumWalKeys, values the bytes 1 .. NumWalVals
NumWalKeys == 1
NumWalVals == 1
\* catalog levels are 0 .. MaxLevel-1 (opt.max_level)
MaxLevel == 2
\* SSTable keys are 1 .. NumKeys
NumKeys == 3
\* SSTable files built over a run; their file names are 1 .. MaxFiles
MaxFiles == 3
\* most readers handed to one add_readers call
MaxBatch == 2
\* most entries added to one SSTable by the table builder
MaxTableKeys == 3
\* the compaction planner is run on levels 0 .. MaxPlanLevel-1
MaxPlanLevel == 3
\* most readers of a level >= 1 the planner is run on
MaxPlanReaders == 2
\* the threads that run Server::call
NumThreads == 3
\* the values a Setter writes
NumSrvVals == 1
\* longest payload of a block frame
MaxPayload == 3
\* the keys inserted into a memtable
NumMemKeys == 3

VARIABLES
    \* ---- WAL: the working directory
    dir,                \* set of file numbers n for which NNNNNN.wal exists
    content,            \* content[n]: the bytes of NNNNNN.wal (<<>> when absent)
    \* ---- WAL: the WAL object (wal.rs:172-176)
    up,                 \* a WAL object exists (FALSE after a crash, before WAL::new)
    segs,               \* WAL.segs, each a WALSeg
    current_file_num,   \* WAL.current_file_num
    ret,                \* outcome of the last WAL call: "ok" or "err"
    \* ---- WAL: history kept for stating the claims
    acked,              \* acked[n]: entries whose append into NNNNNN.wal returned Ok
    torn,               \* files left with a partial tail record by a crash
    \* ---- catalog: SstableReader (sstable_reader.rs:22-26)
    cat_up,             \* SstableReader::new succeeded
    readers_,           \* readers_[level]: the TableReaders of the level
    manifest_,          \* manifest_builder_: per level, the FileMeta file names
    \* ---- catalog: the working directory
    disk_manifest,      \* the MANIFEST file: what the last successful flush wrote
    tables,             \* tables[f]: the keys stored in SSTable file f ({}: no file)
    next_file,          \* file name of the next SSTable to be built
    \* ---- SSTable: one built table and a point get on it
    sst_table,          \* the table file: its data blocks and its index block
    sst_probe,          \* the key of the last get (<<>>: no get yet)
    sst_got,            \* what that get returned: <<>> for None, <<v>> for Some(v)
    \* ---- compaction planner
    plan_readers,       \* readers_ as the planner sees it: per level, the readers' sizes
    plan_out,           \* [done, levels]: the result of compute_compaction_levels
    \* ---- manifest: ManifestBuilder and its two files
    mb_state,           \* "up", "down" after a crash, "failed" when the open failed
    mb_mem,             \* the manifest in memory: per level, the file names
    mb_file,            \* MANIFEST: [exists, bytes]
    mb_tmp,             \* MANIFEST.tmp: [exists, bytes]
    mb_pre,             \* the manifest before the flush a crash interrupted
    mb_post,            \* the manifest that flush was writing
    \* ---- store: the write path over the WAL
    st_mem,             \* the entries of the active memtable
    st_imm,             \* the sealed memtable: [phase, entries, nsegs]
    st_published,       \* the entries of the SSTables the manifest on disk lists
    st_acked,           \* the writes the store acknowledged
    \* ---- server: Server::call on the threads that serve connections
    srv_pc,             \* srv_pc[t]: "idle", "lock", "apply" or "done"
    srv_req,            \* srv_req[t]: the request thread t is handling
    srv_readers,        \* the threads that hold a read guard of the store lock
    srv_writer,         \* the thread that holds the write guard (NoThread: none)
    srv_poisoned,       \* the RwLock is poisoned
    srv_store,          \* the value the store holds for the key (0: none)
    srv_resp,           \* srv_resp[t]: the response call is about to return
    \* ---- block frame: one frame in a file and its decoding
    blk_file,           \* the bytes of the file
    blk_location,       \* the BlockHandle handed to the decoder: [offset, size]
    blk_changed,        \* the offset (from 1) of the byte changed on disk, 0: none
    blk_result,         \* what new_from_location returned: [kind, block]
    \* ---- memtable: Memtable (memtable.rs:15-19)
    mt_max_size,        \* Memtable.max_size_
    mt_size,            \* Memtable.size_
    mt_map,             \* Memtable.map_: per key, <<>> when absent or <<v>>
    mt_ret,             \* the last call on the memtable and what it returned
    \* ---- table cursor: TableIter over the built table (table_iter.rs:8-13)
    it_index,           \* TableIter.index_iter: the state of the index iterator
    it_data_state,      \* TableIter.data_iter_state
    it_data_block,      \* TableIter.data_block: the number of the block, 0: None
    it_fail,            \* the data blocks whose load fails
    it_ret,             \* the last call: [op, ok, key, from], from being the
                        \* entry the cursor was at before an advance or prev
    it_run              \* [base, n]: n advances since new/reset, or n prevs
                        \* since seek_to_last ("none": neither)

walVars == <<dir, content, up, segs, current_file_num, ret, acked, torn>>

catVars == <<cat_up, readers_, manifest_, disk_manifest, tables, next_file>>

sstVars == <<sst_table, sst_probe, sst_got>>

planVars == <<plan_readers, plan_out>>

mbVars == <<mb_state, mb_mem, mb_file, mb_tmp, mb_pre, mb_post>>

storeVars == <<st_mem, st_imm, st_published, st_acked>>

\* the variables of the store and of the server
srvVars == <<srv_pc, srv_req, srv_readers, srv_writer, srv_poisoned, srv_store,
            srv_resp>>

topVars == <<storeVars, srvVars>>

blkVars == <<blk_file, blk_location, blk_changed, blk_result>>

\* the variables of the block codec, the memtable and the table cursor
memVars == <<mt_max_size, mt_size, mt_map, mt_ret>>

itVars == <<it_index, it_data_state, it_data_block, it_fail, it_ret, it_run>>

lateVars == <<blkVars, memVars, itVars>>

\* the variables of the WAL, the catalog, the table, the planner, the
\* manifest, the store and the server
baseVars == <<walVars, catVars, sstVars, planVars, mbVars, topVars>>

\* the variables outside the WAL and the catalog
restVars == <<sstVars, planVars, mbVars, topVars, lateVars>>

vars == <<walVars, catVars, restVars>>

FileNums == 0 .. (MaxFileNum - 1)

(***************************************************************************)
(* Helpers on sequences.                                                   *)
(***************************************************************************)
RECURSIVE SortedSeq(_)
\* the elements of a finite set of integers, ascending
SortedSeq(S) ==
    IF S = {} THEN <<>>
    ELSE LET m == CHOOSE x \in S : \A y \in S : x <= y
         IN  <<m>> \o SortedSeq(S \ {m})

Min2(a, b) == IF a <= b THEN a ELSE b

Count(e, s) == Cardinality({i \in 1 .. Len(s) : s[i] = e})

(***************************************************************************)
(* LogEntry<K, V> with K = V = u8 (wal.rs:30-34).  v is the Option: <<>>   *)
(* for None, <<b>> for Some(b).                                            *)
(***************************************************************************)
LogEntry(k, v) == [k |-> k, v |-> v]

WalEntries ==
    {LogEntry(k, <<>>) : k \in 1 .. NumWalKeys}
    \cup {LogEntry(k, <<b>>) : k \in 1 .. NumWalKeys, b \in 1 .. NumWalVals}

\* bincode::serialize of a LogEntry<u8, u8>: the key byte, the Option tag,
\* then the value byte of a Some
serialize(e) == IF e.v = <<>> THEN <<e.k, 0>> ELSE <<e.k, 1, e.v[1]>>

\* bincode::deserialize_from over the bytes read for one record: fails on a
\* short read and on an Option tag other than 0 or 1; trailing bytes are left
deserialize_from(data) ==
    IF Len(data) < 2 THEN [ok |-> FALSE]
    ELSE IF data[2] = 0 THEN [ok |-> TRUE, entry |-> LogEntry(data[1], <<>>)]
    ELSE IF data[2] = 1 /\ Len(data) >= 3
         THEN [ok |-> TRUE, entry |-> LogEntry(data[1], <<data[3]>>)]
    ELSE [ok |-> FALSE]

\* write_varint of a length below 128: the one byte
write_varint(n) == <<n>>

\* the bytes WALSeg::append writes for an entry
Record(e) == write_varint(Len(serialize(e))) \o serialize(e)

\* File::write of bytes at a cursor position: overwrites, and extends the file
WriteAt(bytes, pos, new) ==
    SubSeq(bytes, 1, pos) \o new
        \o SubSeq(bytes, pos + Len(new) + 1, Len(bytes))

(***************************************************************************)
(* WALSeg (wal.rs:54-104).  num stands for the path NNNNNN.wal; pos is the *)
(* cursor of the segment's own file handle; attached tells whether the     *)
(* handle's file is still the one linked at the path.                      *)
(***************************************************************************)
WALSeg_new(n) == [num |-> n, pos |-> 0, deleted_ |-> FALSE, attached |-> TRUE]

(***************************************************************************)
(* WALSegIter::next (wal.rs:147-169) on the bytes of a file, from offset:  *)
(* the step, then the whole iteration of one segment.                      *)
(***************************************************************************)
WALSegIter_next(bytes, offset) ==
    IF offset >= Len(bytes) THEN [kind |-> "none"]
    ELSE LET size == bytes[offset + 1]
             off  == offset + 1
             data == SubSeq(bytes, off + 1, Min2(off + size, Len(bytes)))
             d    == deserialize_from(data)
         IN  IF d.ok
             THEN [kind |-> "some", entry |-> d.entry, offset |-> off + Len(data)]
             ELSE [kind |-> "panic"]

RECURSIVE WALSegIter_run(_, _)
WALSegIter_run(bytes, offset) ==
    LET n == WALSegIter_next(bytes, offset)
    IN  IF n.kind = "none" THEN [st |-> "ok", out |-> <<>>]
        ELSE IF n.kind = "panic" THEN [st |-> "panic", out |-> <<>>]
        ELSE LET rest == WALSegIter_run(bytes, n.offset)
             IN  [st |-> rest.st, out |-> <<n.entry>> \o rest.out]

(***************************************************************************)
(* WALIter::next (wal.rs:282-303) run to the end over a segment list:      *)
(* deleted segments are skipped, each other segment is opened by path      *)
(* (a panic when the path is gone) and iterated.                           *)
(***************************************************************************)
RECURSIVE WALIter_run(_, _, _, _)
WALIter_run(ss, index, d, c) ==
    IF index > Len(ss) THEN [st |-> "ok", out |-> <<>>]
    ELSE IF ss[index].deleted_ THEN WALIter_run(ss, index + 1, d, c)
    ELSE IF ss[index].num \notin d THEN [st |-> "panic", out |-> <<>>]
    ELSE LET r == WALSegIter_run(c[ss[index].num], 0)
         IN  IF r.st = "panic" THEN r
             ELSE LET rest == WALIter_run(ss, index + 1, d, c)
                  IN  [st |-> rest.st, out |-> r.out \o rest.out]

\* the segment list WAL::new builds from a directory (wal.rs:181-189)
OpenedSegs(d) == LET ns == SortedSeq(d)
                 IN  [i \in 1 .. Len(ns) |-> WALSeg_new(ns[i])]

(***************************************************************************)
(* The WAL operations as functions of the value                            *)
(*   w = [dir, content, segs, cfn, acked, torn, ret]                       *)
(* so that one operation can call another, as the code does.               *)
(***************************************************************************)
WalState == [dir |-> dir, content |-> content, segs |-> segs,
             cfn |-> current_file_num, acked |-> acked, torn |-> torn,
             ret |-> ret]

\* WAL::new_file_num (wal.rs:252-256): the counter, then its increment
new_file_num(w) == [n |-> w.cfn, w |-> [w EXCEPT !.cfn = w.cfn + 1]]

\* WAL::new_seg (wal.rs:242-250): WALSeg::new opens the path read/write,
\* creating the file only if it is absent, with the cursor at 0
new_seg(w) ==
    LET f == new_file_num(w)
    IN  [f.w EXCEPT !.dir  = f.w.dir \cup {f.n},
                    !.segs = Append(f.w.segs, WALSeg_new(f.n)),
                    !.ret  = "ok"]

\* WALSeg::append (wal.rs:91-97) on segment i: the record is written at the
\* handle's cursor; bytes written through a handle whose file was unlinked
\* reach no file of the directory
WALSeg_append(w, i, e) ==
    LET seg == w.segs[i]
        rec == Record(e)
        w1  == [w EXCEPT !.segs[i].pos = seg.pos + Len(rec), !.ret = "ok"]
    IN  IF seg.attached
        THEN [w1 EXCEPT !.content[seg.num] = WriteAt(w.content[seg.num], seg.pos, rec),
                        !.acked[seg.num]   = Append(w.acked[seg.num], e)]
        ELSE w1

\* WAL::append (wal.rs:209-216)
WAL_append(w, e) ==
    LET w1 == IF Len(w.segs) = 0 THEN new_seg(w) ELSE w
    IN  WALSeg_append(w1, Len(w1.segs), e)

\* WALSeg::delete (wal.rs:99-103) on segment i: remove_file fails when the
\* path is gone, and then the segment stays unmarked
WALSeg_delete(w, i) ==
    LET n == w.segs[i].num
    IN  IF n \notin w.dir THEN [w EXCEPT !.ret = "err"]
        ELSE [w EXCEPT
                !.dir     = w.dir \ {n},
                !.content = [w.content EXCEPT ![n] = <<>>],
                !.acked   = [w.acked EXCEPT ![n] = <<>>],
                !.torn    = w.torn \ {n},
                !.segs    = [j \in 1 .. Len(w.segs) |->
                               IF j = i
                               THEN [w.segs[j] EXCEPT !.deleted_ = TRUE,
                                                      !.attached = FALSE]
                               ELSE IF w.segs[j].num = n
                               THEN [w.segs[j] EXCEPT !.attached = FALSE]
                               ELSE w.segs[j]],
                !.ret     = "ok"]

consume_seg_newest_live(w) ==
    LET live == {i \in 1 .. Len(w.segs) : ~w.segs[i].deleted_}
    IN  IF live = {} THEN [w EXCEPT !.ret = "ok"]
        ELSE WALSeg_delete(w, CHOOSE i \in live : \A j \in live : j <= i)

\* WAL::consume_seg (wal.rs:225-240): the first segment not marked deleted
consume_seg(w) ==
    LET live == {i \in 1 .. Len(w.segs) : ~w.segs[i].deleted_}
    IN  IF live = {} THEN [w EXCEPT !.ret = "ok"]
        ELSE WALSeg_delete(w, CHOOSE i \in live : \A j \in live : i <= j)

\* WAL::truncate (wal.rs:218-223): n times consume_seg, stopping at an error
RECURSIVE WAL_truncate(_, _)
WAL_truncate(w, n) ==
    IF n = 0 THEN [w EXCEPT !.ret = "ok"]
    ELSE LET w1 == consume_seg(w)
         IN  IF w1.ret = "err" THEN w1 ELSE WAL_truncate(w1, n - 1)

\* the variables take the values of w
Becomes(w) ==
    /\ dir' = w.dir
    /\ content' = w.content
    /\ segs' = w.segs
    /\ current_file_num' = w.cfn
    /\ acked' = w.acked
    /\ torn' = w.torn
    /\ ret' = w.ret

(***************************************************************************)
(* Actions of the WAL.                                                     *)
(***************************************************************************)
\* WAL::new (wal.rs:179-195): re-open, or restart after a crash
Open ==
    /\ up' = TRUE
    /\ segs' = OpenedSegs(dir)
    /\ current_file_num' = 0
    /\ ret' = "ok"
    /\ UNCHANGED <<dir, content, acked, torn, catVars, restVars>>

NewSeg ==
    /\ up
    /\ current_file_num < MaxFileNum
    /\ Len(segs) < MaxSegs
    /\ Becomes(new_seg(WalState))
    /\ UNCHANGED <<up, catVars, restVars>>

\* the bounds an append of e stays within
AppendFits(e) ==
    /\ Len(segs) = 0 => current_file_num < MaxFileNum
    /\ LET w1   == IF Len(segs) = 0 THEN new_seg(WalState) ELSE WalState
           last == w1.segs[Len(w1.segs)]
       IN  /\ last.pos + Len(Record(e)) <= MaxFileLen
           /\ last.attached => Len(w1.acked[last.num]) < MaxAcked

Append_(e) ==
    /\ up
    /\ AppendFits(e)
    /\ Becomes(WAL_append(WalState, e))
    /\ UNCHANGED <<up, catVars, restVars>>

Truncate(n) ==
    /\ up
    /\ Becomes(WAL_truncate(WalState, n))
    /\ UNCHANGED <<up, catVars, restVars>>

\* a crash inside WALSeg::append (wal.rs:93-95), before sync_data returns:
\* only the first j bytes of the record are on disk, the append is not
\* acknowledged, and the process is gone
CrashInAppend(e, j) ==
    /\ up
    /\ AppendFits(e)
    /\ LET w1   == IF Len(segs) = 0 THEN new_seg(WalState) ELSE WalState
           last == w1.segs[Len(w1.segs)]
           part == SubSeq(Record(e), 1, j)
       IN  /\ dir' = w1.dir
           /\ content' = IF last.attached
                         THEN [w1.content EXCEPT ![last.num] =
                                 WriteAt(w1.content[last.num], last.pos, part)]
                         ELSE w1.content
           /\ torn' = IF last.attached THEN torn \cup {last.num} ELSE torn
    /\ up' = FALSE
    /\ segs' = <<>>
    /\ current_file_num' = 0
    /\ ret' = "err"
    /\ UNCHANGED <<acked, catVars, restVars>>

WalInit ==
    /\ dir = {}
    /\ content = [n \in FileNums |-> <<>>]
    /\ up = TRUE
    /\ segs = <<>>
    /\ current_file_num = 0
    /\ ret = "ok"
    /\ acked = [n \in FileNums |-> <<>>]
    /\ torn = {}

WalNext ==
    \/ Open
    \/ NewSeg
    \/ \E e \in WalEntries : Append_(e)
    \/ \E n \in 0 .. MaxTruncate : Truncate(n)
    \/ \E e \in WalEntries : \E j \in 1 .. (Len(Record(e)) - 1) : CrashInAppend(e, j)


(***************************************************************************)
(* Claims about the WAL.                                                   *)
(***************************************************************************)
\* replay by the WAL object at hand, and by a WAL opened now on the directory
Replay == WALIter_run(segs, 1, dir, content)
ReplayReopened == WALIter_run(OpenedSegs(dir), 1, dir, content)

\* the acknowledged entries of the files in a set, in file-name order
RECURSIVE AckedOf(_)
AckedOf(ns) == IF ns = <<>> THEN <<>> ELSE acked[Head(ns)] \o AckedOf(Tail(ns))

LiveNums(ss) == {ss[i].num : i \in {j \in 1 .. Len(ss) : ~ss[j].deleted_}}

\* C1: every entry whose append returned success, into a segment that was not
\* truncated, is yielded by the replay of a WAL opened afterwards (crashes
\* that tear a record are C2's subject and are left out here).
C1_AckedEntriesReplayed ==
    torn = {} =>
        /\ ReplayReopened.st = "ok"
        /\ \A n \in dir : \A i \in 1 .. Len(acked[n]) :
              Count(acked[n][i], ReplayReopened.out) >= 1

\* C2: over a segment that a crash left with a partial tail record, replay
\* yields exactly the complete records before the tail and ends normally.
C2_PartialTailDropped ==
    \A n \in torn \cap dir :
        WALSegIter_run(content[n], 0) = [st |-> "ok", out |-> acked[n]]

\* C3: replay yields the entries of the non-deleted segments, in file-name
\* order and in append order within a segment, each exactly once, and ends.
C3_ReplayInOrderOnce ==
    (up /\ torn = {}) =>
        Replay = [st |-> "ok", out |-> AckedOf(SortedSeq(LiveNums(segs)))]

\* the entries of the segments that are live in ss, read from the files c
RECURSIVE EntriesOf(_, _, _)
EntriesOf(ss, i, c) ==
    IF i > Len(ss) THEN <<>>
    ELSE IF ss[i].deleted_ THEN EntriesOf(ss, i + 1, c)
    ELSE WALSegIter_run(c[ss[i].num], 0).out \o EntriesOf(ss, i + 1, c)

LiveIdx(ss) == {i \in 1 .. Len(ss) : ~ss[i].deleted_}

\* C4: truncate(n), called on a WAL whose replay succeeds, returns Ok, marks
\* and unlinks exactly the n oldest live segments (all, if fewer remain), and
\* afterwards the replay of the same object and of a re-opened WAL yield the
\* entries of the remaining segments in order.
C4_TruncateOldest ==
    [][\A n \in 0 .. MaxTruncate :
        (Replay.st = "ok" /\ Truncate(n)) =>
            LET live == LiveIdx(segs)
                gone == {i \in live : Cardinality({j \in live : j < i}) < n}
                rest == EntriesOf(segs', 1, content)
            IN  /\ ret' = "ok"
                /\ Len(segs') = Len(segs)
                /\ LiveIdx(segs') = live \ gone
                /\ dir' = dir \ {segs[i].num : i \in gone}
                /\ WALIter_run(segs', 1, dir', content') = [st |-> "ok", out |-> rest]
                /\ WALIter_run(OpenedSegs(dir'), 1, dir', content')
                       = [st |-> "ok", out |-> rest]
      ]_vars

\* C5: every segment new_seg creates has a file number above that of every
\* segment already there, so the segment list is strictly increasing in file
\* number: no two elements name the same file and name order is creation order.
C5_FileNumbersIncrease ==
    \A i, j \in 1 .. Len(segs) : i < j => segs[i].num < segs[j].num

(***************************************************************************)
(* The SSTable catalog (mirdb-server/src/sstable_reader.rs).               *)
(*                                                                         *)
(* A TableReader is [file_name, keys]: the file it reads and the keys the  *)
(* file stores.  The value a table stores for a key is tagged with the     *)
(* table's file name, so that the origin of a value returned by get is     *)
(* visible.  SSTable file names are handed out in increasing order as the  *)
(* tables are built, so a greater file name is a later addition.           *)
(***************************************************************************)
Levels == 0 .. (MaxLevel - 1)
Keys == 1 .. NumKeys
FileNames == 1 .. MaxFiles

\* the key sets of the tables that are built: a first and a last key
TableKeySets == {{a, b} : a \in Keys, b \in Keys}

\* TableReader::new on a file, and its accessors
TableReader_new(f, ks) == [file_name |-> f, keys |-> ks]
min_key(r) == CHOOSE k \in r.keys : \A x \in r.keys : k <= x
max_key(r) == CHOOSE k \in r.keys : \A x \in r.keys : x <= k
\* TableReader::get: Some(value) for a stored key, else None
TableReader_get(r, k) == IF k \in r.keys THEN <<r.file_name>> ELSE <<>>

\* table_reader_to_file_meta (sstable_reader.rs:28-32)
table_reader_to_file_meta(r) == r.file_name

\* ManifestBuilder: add_file_meta, remove_file_meta_by_file_names, file_metas
add_file_meta(m, level, fm) == [m EXCEPT ![level] = Append(@, fm)]

RECURSIVE FilterOut(_, _)
FilterOut(fms, names) ==
    IF fms = <<>> THEN <<>>
    ELSE IF Head(fms) \in names THEN FilterOut(Tail(fms), names)
    ELSE <<Head(fms)>> \o FilterOut(Tail(fms), names)

remove_file_meta_by_file_names(m, level, names) ==
    [m EXCEPT ![level] = FilterOut(@, names)]

file_metas(m, level) == m[level]

\* Vec::push (sstable_reader.rs:141)
Vec_push_front(rs, r) == <<r>> \o rs
Vec_push(rs, r) == Append(rs, r)

\* Vec::retain (sstable_reader.rs:160): the readers not named, in their order
RECURSIVE retain_rev(_, _)
retain_rev(rs, names) ==
    IF rs = <<>> THEN <<>>
    ELSE IF Head(rs).file_name \in names THEN retain_rev(Tail(rs), names)
    ELSE retain_rev(Tail(rs), names) \o <<Head(rs)>>
RECURSIVE retain(_, _)
retain(rs, names) ==
    IF rs = <<>> THEN <<>>
    ELSE IF Head(rs).file_name \in names THEN retain(Tail(rs), names)
    ELSE <<Head(rs)>> \o retain(Tail(rs), names)

\* sort_readers (sstable_reader.rs:34-36): a stable sort by min_key
RECURSIVE InsertSorted(_, _)
InsertSorted(rs, r) ==
    IF rs = <<>> THEN <<r>>
    ELSE IF min_key(r) < min_key(Head(rs)) THEN <<r>> \o rs
    ELSE <<Head(rs)>> \o InsertSorted(Tail(rs), r)

RECURSIVE StableSort(_)
StableSort(rs) ==
    IF rs = <<>> THEN <<>>
    ELSE InsertSorted(StableSort(SubSeq(rs, 1, Len(rs) - 1)), rs[Len(rs)])

\* a level left in the order of its pushes
sort_readers_none(rs) == rs
sort_readers(rs) == StableSort(rs)

\* the range test of search_readers (sstable_reader.rs:77 and 97)
InRange(r, key) == min_key(r) <= key /\ max_key(r) >= key

\* search_readers at level 0 (sstable_reader.rs:75-80): newest first
RECURSIVE search_level0_oldest_first(_, _)
search_level0_oldest_first(rs, key) ==
    IF rs = <<>> THEN <<>>
    ELSE (IF InRange(Head(rs), key) THEN <<Head(rs)>> ELSE <<>>)
            \o search_level0_oldest_first(Tail(rs), key)
RECURSIVE search_level0(_, _)
search_level0(rs, key) ==
    IF rs = <<>> THEN <<>>
    ELSE (IF InRange(rs[Len(rs)], key) THEN <<rs[Len(rs)]>> ELSE <<>>)
            \o search_level0(SubSeq(rs, 1, Len(rs) - 1), key)

\* the binary search of search_readers (sstable_reader.rs:82-94), on 0-based
\* indices as in the code; readers[middle] is rs[middle + 1]
RECURSIVE binary_search(_, _, _, _)
binary_search(rs, key, left, right) ==
    IF left < right
    THEN LET middle == (left + right + 1) \div 2
         IN  IF min_key(rs[middle + 1]) < key
             THEN binary_search(rs, key, middle, right)
             ELSE binary_search(rs, key, left, middle - 1)
    ELSE left

\* the scan of search_readers (sstable_reader.rs:96-104) from 0-based index i
RECURSIVE scan_stop_at_first_miss(_, _, _)
scan_stop_at_first_miss(rs, key, i) ==
    IF i >= Len(rs) THEN <<>>
    ELSE IF InRange(rs[i + 1], key)
         THEN <<rs[i + 1]>> \o scan_stop_at_first_miss(rs, key, i + 1)
    ELSE <<>>
RECURSIVE scan(_, _, _)
scan(rs, key, i) ==
    IF i >= Len(rs) THEN <<>>
    ELSE IF InRange(rs[i + 1], key) THEN <<rs[i + 1]>> \o scan(rs, key, i + 1)
    ELSE IF min_key(rs[i + 1]) > key THEN <<>>
    ELSE scan(rs, key, i + 1)

\* SstableReader::search_readers (sstable_reader.rs:62-108)
search_readers(rd, level, key) ==
    IF level \notin DOMAIN rd THEN <<>>
    ELSE IF level = 0 THEN search_level0(rd[level], key)
    ELSE IF rd[level] # <<>>
         THEN scan(rd[level], key,
                   binary_search(rd[level], key, 0, Len(rd[level]) - 1))
    ELSE <<>>

\* SstableReader::get (sstable_reader.rs:181-195): the first Some, level by
\* level and candidate by candidate
RECURSIVE get_in(_, _)
get_in(cands, k) ==
    IF cands = <<>> THEN <<>>
    ELSE LET r == TableReader_get(Head(cands), k)
         IN  IF r # <<>> THEN r ELSE get_in(Tail(cands), k)

\* the levels loop run from the deepest level up
RECURSIVE get_from_deepest_first(_, _, _)
get_from_deepest_first(rd, i, k) ==
    IF i >= MaxLevel THEN <<>>
    ELSE LET r == get_from_deepest_first(rd, i + 1, k)
         IN  IF r # <<>> THEN r ELSE get_in(search_readers(rd, i, k), k)

RECURSIVE get_from(_, _, _)
get_from(rd, i, k) ==
    IF i >= MaxLevel THEN <<>>
    ELSE LET r == get_in(search_readers(rd, i, k), k)
         IN  IF r # <<>> THEN r ELSE get_from(rd, i + 1, k)

get(rd, k) == get_from(rd, 0, k)

\* SstableReader::load (sstable_reader.rs:110-128) of one level
load_level(m, t, i) ==
    LET fms == file_metas(m, i)
        rs  == [j \in 1 .. Len(fms) |-> TableReader_new(fms[j], t[fms[j]])]
    IN  IF i # 0 THEN sort_readers(rs) ELSE rs

\* load_reader (sstable_reader.rs:50-54) fails when the file is gone
LoadFails(m, t) ==
    \E i \in Levels : \E j \in 1 .. Len(m[i]) : t[m[i][j]] = {}

\* the loop of add_readers (sstable_reader.rs:137-145) on
\* c = [readers, manifest]
RECURSIVE add_readers(_, _, _)
add_readers(c, level, rs) ==
    IF rs = <<>> THEN c
    ELSE LET r  == Head(rs)
             m1 == add_file_meta(c.manifest, level, table_reader_to_file_meta(r))
             p  == Vec_push(c.readers[level], r)
             r1 == [c.readers EXCEPT ![level] =
                        IF level # 0 THEN sort_readers(p) ELSE p]
         IN  add_readers([readers |-> r1, manifest |-> m1], level, Tail(rs))

remove_by_file_names_readers_only(c, level, names) ==
    [readers  |-> [c.readers EXCEPT ![level] = retain(@, names)],
     manifest |-> c.manifest]

\* remove_by_file_names before the flush (sstable_reader.rs:158-160)
remove_by_file_names(c, level, names) ==
    [readers  |-> [c.readers EXCEPT ![level] = retain(@, names)],
     manifest |-> remove_file_meta_by_file_names(c.manifest, level, names)]

(***************************************************************************)
(* Actions of the catalog.                                                 *)
(***************************************************************************)
\* tables are built, then SstableReader::add_readers (sstable_reader.rs:134-149)
\* publishes them; the flush of the manifest succeeds or fails
AddReaders(level, batch, flush_ok) ==
    /\ cat_up
    /\ batch # <<>>
    /\ next_file + Len(batch) - 1 <= MaxFiles
    /\ LET rs == [i \in 1 .. Len(batch) |->
                    TableReader_new(next_file + i - 1, batch[i])]
           c  == add_readers([readers |-> readers_, manifest |-> manifest_],
                             level, rs)
       IN  /\ readers_' = c.readers
           /\ manifest_' = c.manifest
           /\ disk_manifest' = IF flush_ok THEN c.manifest ELSE disk_manifest
           /\ tables' = [f \in FileNames |->
                            IF f \in next_file .. (next_file + Len(batch) - 1)
                            THEN batch[f - next_file + 1] ELSE tables[f]]
    /\ next_file' = next_file + Len(batch)
    /\ UNCHANGED <<cat_up, walVars, restVars>>

\* remove_by_file_names with the files unlinked before the flush
RemoveByFileNames_unlink_first(level, names, flush_ok) ==
    /\ cat_up
    /\ LET c == remove_by_file_names([readers |-> readers_, manifest |-> manifest_],
                                     level, names)
       IN  /\ readers_' = c.readers
           /\ manifest_' = c.manifest
           /\ disk_manifest' = IF flush_ok THEN c.manifest ELSE disk_manifest
           /\ tables' = [f \in FileNames |-> IF f \in names THEN {} ELSE tables[f]]
    /\ UNCHANGED <<cat_up, next_file, walVars, restVars>>

\* SstableReader::remove_by_file_names (sstable_reader.rs:151-171), called
\* with names of files that exist.  When the flush fails nothing is unlinked,
\* else every named file is.
RemoveByFileNames(level, names, flush_ok) ==
    /\ cat_up
    /\ LET c == remove_by_file_names([readers |-> readers_, manifest |-> manifest_],
                                     level, names)
           gone == IF flush_ok THEN names ELSE {}
       IN  /\ readers_' = c.readers
           /\ manifest_' = c.manifest
           /\ disk_manifest' = IF flush_ok THEN c.manifest ELSE disk_manifest
           /\ tables' = [f \in FileNames |-> IF f \in gone THEN {} ELSE tables[f]]
    /\ UNCHANGED <<cat_up, next_file, walVars, restVars>>

\* restart: SstableReader::new (sstable_reader.rs:39-48) reads the manifest
\* from disk and loads every level
Restart ==
    /\ manifest_' = disk_manifest
    /\ IF LoadFails(disk_manifest, tables)
       THEN /\ cat_up' = FALSE
            /\ readers_' = [i \in Levels |-> <<>>]
       ELSE /\ cat_up' = TRUE
            /\ readers_' = [i \in Levels |-> load_level(disk_manifest, tables, i)]
    /\ UNCHANGED <<disk_manifest, tables, next_file, walVars, restVars>>

CatInit ==
    /\ cat_up = TRUE
    /\ readers_ = [i \in Levels |-> <<>>]
    /\ manifest_ = [i \in Levels |-> <<>>]
    /\ disk_manifest = [i \in Levels |-> <<>>]
    /\ tables = [f \in FileNames |-> {}]
    /\ next_file = 1

CatNext ==
    \/ \E level \in Levels :
          \E n \in 1 .. Min2(MaxBatch, MaxFiles + 1 - next_file) :
              \E batch \in [1 .. n -> TableKeySets] :
                  \E flush_ok \in BOOLEAN : AddReaders(level, batch, flush_ok)
    \/ \E level \in Levels : \E names \in SUBSET {f \in FileNames : tables[f] # {}} :
          \E flush_ok \in BOOLEAN : RemoveByFileNames(level, names, flush_ok)
    \/ Restart

(***************************************************************************)
(* SSTable: the table builder and the reader's point get.  Keys are byte   *)
(* strings ordered by unsigned lexicographic comparison; the value stored  *)
(* with a key is the key's position in the input.  A table is its data     *)
(* blocks, each a sequence of entries [k, v], and its index block, a       *)
(* sequence of entries [k, v] whose v is the handle (the number) of a data *)
(* block.                                                                  *)
(***************************************************************************)
\* the bytes keys are made of, and the keys the builder is fed
KeyBytes == {0, 1, 3}
SstKeys == [1 .. 1 -> KeyBytes] \cup [1 .. 2 -> KeyBytes]

\* a < b in unsigned lexicographic order
RECURSIVE KeyLess(_, _)
KeyLess(a, b) ==
    IF b = <<>> THEN FALSE
    ELSE IF a = <<>> THEN TRUE
    ELSE IF Head(a) # Head(b) THEN Head(a) < Head(b)
    ELSE KeyLess(Tail(a), Tail(b))

KeyLeq(a, b) == a = b \/ KeyLess(a, b)

\* the length of the common prefix of a and b
RECURSIVE CommonPrefixLen(_, _)
CommonPrefixLen(a, b) ==
    IF a = <<>> \/ b = <<>> \/ Head(a) # Head(b) THEN 0
    ELSE 1 + CommonPrefixLen(Tail(a), Tail(b))

\* short separator of a < b: the common prefix extended by one byte taken
\* from a, incremented by 1; when a is a prefix of b it has no such byte and
\* the byte is pad, at most the byte of b, the result staying in a < s <= b
short_separator(a, b, pad) ==
    LET p == CommonPrefixLen(a, b)
    IN  IF p < Len(a)
        THEN SubSeq(a, 1, p) \o <<a[p + 1] + 1>>
        ELSE a \o <<Min2(pad, b[p + 1])>>

\* the data blocks the builder writes: entries is cut after the adds at which
\* the size estimate of the current block exceeds block_size
RECURSIVE finish_blocks(_, _, _)
finish_blocks(entries, cuts, from) ==
    IF from > Len(entries) THEN <<>>
    ELSE LET ends == {c \in cuts : c >= from} \cup {Len(entries)}
             to   == CHOOSE c \in ends : \A d \in ends : c <= d
         IN  <<SubSeq(entries, from, to)>> \o finish_blocks(entries, cuts, to + 1)

\* the index block: one entry per data block, keyed by the short separator of
\* the block's last key and the next block's first key, or by the last key of
\* the last block
index_entries(blocks, pad) ==
    [j \in 1 .. Len(blocks) |->
        [k |-> IF j < Len(blocks)
               THEN short_separator(blocks[j][Len(blocks[j])].k, blocks[j + 1][1].k, pad)
               ELSE blocks[j][Len(blocks[j])].k,
         v |-> j]]

\* TableBuilder: add every entry in order, then flush
TableBuilder_flush(entries, cuts, pad) ==
    LET blocks == finish_blocks(entries, cuts, 1)
    IN  [blocks |-> blocks, index |-> index_entries(blocks, pad)]

\* BlockIter::seek: the position of the first entry with key >= key, 0 when
\* there is none (the iterator is invalid)
BlockIter_seek(block, key) ==
    LET S == {i \in 1 .. Len(block) : KeyLeq(key, block[i].k)}
    IN  IF S = {} THEN 0 ELSE CHOOSE i \in S : \A j \in S : i <= j

\* TableReader::get on a built table: seek the index, load the data block of
\* the entry found, seek in it, and return the value when the keys are equal
TableReader_get_point(t, key) ==
    LET i == BlockIter_seek(t.index, key)
    IN  IF i = 0 THEN <<>>
        ELSE LET block == t.blocks[t.index[i].v]
                 j     == BlockIter_seek(block, key)
             IN  IF j # 0 /\ block[j].k = key THEN <<block[j].v>> ELSE <<>>

\* the strictly increasing key sequences of at most MaxTableKeys keys
RECURSIVE SortedKeys(_)
SortedKeys(S) ==
    IF S = {} THEN <<>>
    ELSE LET m == CHOOSE x \in S : \A y \in S : KeyLeq(x, y)
         IN  <<m>> \o SortedKeys(S \ {m})

TableInputs ==
    {SortedKeys(S) : S \in {T \in SUBSET SstKeys : T # {} /\ Cardinality(T) <= MaxTableKeys}}

\* no table built
SstIdle ==
    /\ sst_table = [blocks |-> <<>>, index |-> <<>>]
    /\ sst_probe = <<>>
    /\ sst_got = <<>>

\* a table built from any input, cut into blocks in any way
TableInit ==
    /\ \E ks \in TableInputs : \E cuts \in SUBSET (1 .. (Len(ks) - 1)) : \E pad \in {0, 255} :
          sst_table = TableBuilder_flush([i \in 1 .. Len(ks) |-> [k |-> ks[i], v |-> i]],
                                         cuts, pad)
    /\ sst_probe = <<>>
    /\ sst_got = <<>>

\* a point get
TableGet(key) ==
    /\ sst_probe' = key
    /\ sst_got' = TableReader_get_point(sst_table, key)
    /\ UNCHANGED <<sst_table, walVars, catVars, planVars, mbVars, topVars, lateVars>>

TableNext == \E key \in SstKeys : TableGet(key)

(***************************************************************************)
(* Compaction planner: SstableReader::compute_compaction_levels.  Sizes    *)
(* are counted in units of 512 KiB, so that 10 MiB is 20 units.  A score   *)
(* is the fraction [n, d] of the f64 division                              *)
(* n / d; at these magnitudes the division is exact enough that            *)
(* n / d >= 1. iff n >= d and the order of two scores is that of the       *)
(* fractions.                                                              *)
(***************************************************************************)
\* opt.l0_compaction_trigger, at its default
l0_compaction_trigger == 4
\* 10. * 1_048_576. bytes in units of 512 KiB (sstable_reader.rs:217)
level1_max_units == 20

PlanLevels == 0 .. (MaxPlanLevel - 1)
\* the file sizes of the readers the planner is run on, in units of 512 KiB:
\* 5 MiB, 12.5 MiB and 100 MiB at the levels >= 1, 5 MiB at level 0, where
\* the sizes do not enter the score
PlanSizes == {10, 25, 200}
PlanSizesLevel0 == {10}

\* TableReader::size
TableReader_size(r) == r.size

\* max_bytes_for_level (sstable_reader.rs:215-223) with the loop run while
\* level > 0
RECURSIVE max_bytes_for_level_from_zero(_)
max_bytes_for_level_from_zero(level) ==
    IF level > 0 THEN 10 * max_bytes_for_level_from_zero(level - 1) ELSE level1_max_units

\* max_bytes_for_level (sstable_reader.rs:215-223)
RECURSIVE max_bytes_for_level(_)
max_bytes_for_level(level) ==
    IF level > 1 THEN 10 * max_bytes_for_level(level - 1) ELSE level1_max_units

\* readers.iter().map(TableReader::size).sum()
RECURSIVE sum_sizes(_)
sum_sizes(rs) ==
    IF rs = <<>> THEN 0 ELSE TableReader_size(Head(rs)) + sum_sizes(Tail(rs))

\* the score of level i (sstable_reader.rs:201-206)
score(rd, i) ==
    IF i = 0
    THEN [n |-> Len(rd[0]), d |-> l0_compaction_trigger]
    ELSE [n |-> sum_sizes(rd[i]), d |-> max_bytes_for_level(i)]

\* score >= 1. and the order of two scores
ScoreGeOne(sc) == sc.n >= sc.d
ScoreLess(a, b) == a.n * b.d < b.n * a.d

\* the loop of compute_compaction_levels (sstable_reader.rs:199-210)
RECURSIVE push_scores(_, _)
push_scores(rd, i) ==
    IF i >= MaxPlanLevel THEN <<>>
    ELSE (IF ScoreGeOne(score(rd, i)) THEN <<<<i, score(rd, i)>>>> ELSE <<>>)
            \o push_scores(rd, i + 1)

\* scores.sort_by(|a, b| a.1.partial_cmp(&b.1)): ascending scores
RECURSIVE insert_by_score_asc(_, _)
insert_by_score_asc(ss, x) ==
    IF ss = <<>> THEN <<x>>
    ELSE IF ScoreLess(x[2], Head(ss)[2]) THEN <<x>> \o ss
    ELSE <<Head(ss)>> \o insert_by_score_asc(Tail(ss), x)

RECURSIVE sort_by_score_asc(_)
sort_by_score_asc(ss) ==
    IF ss = <<>> THEN <<>>
    ELSE insert_by_score_asc(sort_by_score_asc(SubSeq(ss, 1, Len(ss) - 1)), ss[Len(ss)])

\* scores.sort_by(|a, b| b.1.partial_cmp(&a.1)) (sstable_reader.rs:211): a
\* stable sort, greatest score first
RECURSIVE insert_by_score(_, _)
insert_by_score(ss, x) ==
    IF ss = <<>> THEN <<x>>
    ELSE IF ScoreLess(Head(ss)[2], x[2]) THEN <<x>> \o ss
    ELSE <<Head(ss)>> \o insert_by_score(Tail(ss), x)

RECURSIVE sort_by_score(_)
sort_by_score(ss) ==
    IF ss = <<>> THEN <<>>
    ELSE insert_by_score(sort_by_score(SubSeq(ss, 1, Len(ss) - 1)), ss[Len(ss)])

\* SstableReader::compute_compaction_levels (sstable_reader.rs:197-213)
compute_compaction_levels(rd) ==
    LET scores == sort_by_score(push_scores(rd, 0))
    IN  [j \in 1 .. Len(scores) |-> scores[j][1]]

\* the reader lists of at most n readers
ReaderLists(n, sizes) ==
    UNION {[1 .. m -> {[size |-> z] : z \in sizes}] : m \in 0 .. n}

PlanIdle ==
    /\ plan_readers = [i \in PlanLevels |-> <<>>]
    /\ plan_out = [done |-> FALSE, levels |-> <<>>]

\* any catalog: up to one reader more than the trigger at level 0
PlanInit ==
    /\ \E r0 \in ReaderLists(l0_compaction_trigger + 1, PlanSizesLevel0) :
          \E rest \in [PlanLevels \ {0} -> ReaderLists(MaxPlanReaders, PlanSizes)] :
              plan_readers = [i \in PlanLevels |-> IF i = 0 THEN r0 ELSE rest[i]]
    /\ plan_out = [done |-> FALSE, levels |-> <<>>]

ComputeCompactionLevels ==
    /\ ~plan_out.done
    /\ plan_out' = [done |-> TRUE, levels |-> compute_compaction_levels(plan_readers)]
    /\ UNCHANGED <<plan_readers, walVars, catVars, sstVars, mbVars, topVars, lateVars>>

PlanNext == ComputeCompactionLevels

(***************************************************************************)
(* Manifest: ManifestBuilder::flush and the recovery on open.  flush       *)
(* serializes the manifest, writes MANIFEST.tmp, fsyncs it, renames it     *)
(* over MANIFEST and fsyncs the directory.  The open deserializes MANIFEST *)
(* when it exists, promotes MANIFEST.tmp when only that exists, and        *)
(* deletes MANIFEST.tmp otherwise.                                         *)
(***************************************************************************)
NoFile == [exists |-> FALSE, bytes |-> <<>>]
EmptyManifest == [i \in Levels |-> <<>>]

\* serialize: the number of levels, then per level the number of FileMetas
\* and their file names
RECURSIVE serialize_levels(_, _)
serialize_levels(m, i) ==
    IF i >= MaxLevel THEN <<>>
    ELSE <<Len(m[i])>> \o m[i] \o serialize_levels(m, i + 1)

serialize_manifest(m) == <<MaxLevel>> \o serialize_levels(m, 0)

\* deserialize n levels from bytes: [ok, levels, rest]
RECURSIVE deserialize_levels(_, _)
deserialize_levels(bytes, n) ==
    IF n = 0 THEN [ok |-> TRUE, levels |-> <<>>, rest |-> bytes]
    ELSE IF bytes = <<>> \/ Len(bytes) < 1 + bytes[1]
         THEN [ok |-> FALSE, levels |-> <<>>, rest |-> <<>>]
    ELSE LET r == deserialize_levels(SubSeq(bytes, 2 + bytes[1], Len(bytes)), n - 1)
         IN  [ok     |-> r.ok,
              levels |-> <<SubSeq(bytes, 2, 1 + bytes[1])>> \o r.levels,
              rest   |-> r.rest]

\* deserialize: [ok, manifest]; a cut or overlong file is an error
deserialize_manifest(bytes) ==
    IF bytes = <<>> \/ bytes[1] # MaxLevel THEN [ok |-> FALSE, manifest |-> EmptyManifest]
    ELSE LET r == deserialize_levels(Tail(bytes), MaxLevel)
         IN  IF r.ok /\ r.rest = <<>>
             THEN [ok |-> TRUE, manifest |-> [i \in Levels |-> r.levels[i + 1]]]
             ELSE [ok |-> FALSE, manifest |-> EmptyManifest]

\* the changes a caller makes before a flush: add_file_meta of a new file
\* name, remove_file_meta_by_file_names
ManifestChanges(m) ==
    {add_file_meta(m, level, f) :
        level \in Levels,
        f \in {g \in FileNames : \A l \in Levels : \A j \in 1 .. Len(m[l]) : m[l][j] # g}}
    \cup {remove_file_meta_by_file_names(m, level, names) :
              level \in Levels, names \in SUBSET FileNames \ {{}}}

\* the points of flush a crash can hit
FlushPoints == {"serialize", "write", "fsync", "rename", "fsync_dir"}

\* the two files after a crash at point p of the flush of bytes, the write of
\* MANIFEST.tmp having reached j bytes and the rename being durable or not
FilesAfterCrash(p, bytes, j, durable) ==
    IF p = "serialize" THEN [file |-> mb_file, tmp |-> mb_tmp]
    ELSE IF p \in {"write", "fsync"}
         THEN [file |-> mb_file, tmp |-> [exists |-> TRUE, bytes |-> SubSeq(bytes, 1, j)]]
    ELSE IF p = "rename" \/ ~durable
         THEN [file |-> mb_file, tmp |-> [exists |-> TRUE, bytes |-> bytes]]
    ELSE [file |-> [exists |-> TRUE, bytes |-> bytes], tmp |-> NoFile]

\* a change and its flush, all steps done
FlushManifest(m) ==
    /\ mb_state = "up"
    /\ mb_mem' = m
    /\ mb_file' = [exists |-> TRUE, bytes |-> serialize_manifest(m)]
    /\ mb_tmp' = NoFile
    /\ mb_pre' = m
    /\ mb_post' = m
    /\ UNCHANGED <<mb_state, walVars, catVars, sstVars, planVars, topVars, lateVars>>

\* a change and a crash within its flush
CrashInFlush(m, p, j, durable) ==
    /\ mb_state = "up"
    /\ j \in 0 .. Len(serialize_manifest(m))
    /\ mb_state' = "down"
    /\ mb_file' = FilesAfterCrash(p, serialize_manifest(m), j, durable).file
    /\ mb_tmp' = FilesAfterCrash(p, serialize_manifest(m), j, durable).tmp
    /\ mb_pre' = mb_mem
    /\ mb_post' = m
    /\ UNCHANGED <<mb_mem, walVars, catVars, sstVars, planVars, topVars, lateVars>>

\* ManifestBuilder::new after a crash
OpenManifest ==
    /\ mb_state = "down"
    /\ LET promoted == ~mb_file.exists /\ mb_tmp.exists
           file     == IF promoted THEN mb_tmp ELSE mb_file
           d        == deserialize_manifest(file.bytes)
       IN  /\ mb_file' = file
           /\ mb_tmp' = NoFile
           /\ IF ~file.exists
              THEN mb_state' = "up" /\ mb_mem' = EmptyManifest
              ELSE IF d.ok
                   THEN mb_state' = "up" /\ mb_mem' = d.manifest
                   ELSE mb_state' = "failed" /\ mb_mem' = EmptyManifest
    /\ UNCHANGED <<mb_pre, mb_post, walVars, catVars, sstVars, planVars, topVars, lateVars>>

MbInit ==
    /\ mb_state = "up"
    /\ mb_mem = EmptyManifest
    /\ mb_file = NoFile
    /\ mb_tmp = NoFile
    /\ mb_pre = EmptyManifest
    /\ mb_post = EmptyManifest

MbNext ==
    \/ \E m \in ManifestChanges(mb_mem) : FlushManifest(m)
    \/ \E m \in ManifestChanges(mb_mem) : \E p \in FlushPoints :
          \E j \in 0 .. (2 * MaxLevel + MaxFiles) : \E durable \in BOOLEAN :
              CrashInFlush(m, p, j, durable)
    \/ OpenManifest

(***************************************************************************)
(* The store's write path (spec.md 4.9) over the WAL of wal.rs: a set      *)
(* appends to the WAL and inserts into the active memtable; a full         *)
(* memtable is sealed and a new WAL segment allocated; the flush publishes *)
(* the sealed memtable as an SSTable and flushes the manifest; then the    *)
(* WAL segments that recorded it are truncated.  Memtable::is_full is a    *)
(* stub that returns false (memtable.rs), so when a memtable counts as     *)
(* full is left open: any non-empty memtable may be sealed.                *)
(***************************************************************************)
NoImm == [phase |-> "none", entries |-> {}, nsegs |-> 0]

LiveSegs(ss) == {i \in 1 .. Len(ss) : ~ss[i].deleted_}

\* steps 1 and 2 of a mutation: WAL::append, then the memtable insert; the
\* write is acknowledged when both are done
StoreSet(e) ==
    /\ up
    /\ AppendFits(e)
    /\ Becomes(WAL_append(WalState, e))
    /\ st_mem' = st_mem \cup {e}
    /\ st_acked' = st_acked \cup {e}
    /\ UNCHANGED <<up, st_imm, st_published, catVars, sstVars, planVars, mbVars,
                   srvVars, lateVars>>

\* step 3: the active memtable is sealed, a new memtable and a new WAL
\* segment (WAL::new_seg) are allocated; the segments live until now are the
\* ones that record the sealed memtable
StoreSeal ==
    /\ up
    /\ st_mem # {}
    /\ st_imm.phase = "none"
    /\ current_file_num < MaxFileNum
    /\ Len(segs) < MaxSegs
    /\ st_imm' = [phase |-> "sealed", entries |-> st_mem,
                  nsegs |-> Cardinality(LiveSegs(segs))]
    /\ st_mem' = {}
    /\ Becomes(new_seg(WalState))
    /\ UNCHANGED <<up, st_published, st_acked, catVars, sstVars, planVars, mbVars,
                   srvVars, lateVars>>

\* the flush of the sealed memtable: its SSTable is built and added to
\* level 0, and the manifest listing it is flushed
StorePublish ==
    /\ up
    /\ st_imm.phase = "sealed"
    /\ st_published' = st_published \cup st_imm.entries
    /\ st_imm' = [st_imm EXCEPT !.phase = "published"]
    /\ UNCHANGED <<st_mem, st_acked, walVars, catVars, sstVars, planVars, mbVars,
                   srvVars, lateVars>>

\* step 4: WAL::truncate of the segments that recorded the flushed memtable
StoreTruncate ==
    /\ up
    /\ st_imm.phase = "published"
    /\ Becomes(WAL_truncate(WalState, st_imm.nsegs))
    /\ st_imm' = NoImm
    /\ UNCHANGED <<up, st_mem, st_published, st_acked, catVars, sstVars, planVars, mbVars,
                   srvVars, lateVars>>

\* a crash between two steps: the memtables and the WAL object are gone, the
\* files stay
StoreCrash ==
    /\ up
    /\ up' = FALSE
    /\ segs' = <<>>
    /\ current_file_num' = 0
    /\ ret' = "err"
    /\ st_mem' = {}
    /\ st_imm' = NoImm
    /\ UNCHANGED <<dir, content, acked, torn, st_published, st_acked,
                   catVars, sstVars, planVars, mbVars,
                   srvVars, lateVars>>

\* the restart: WAL::new on the directory (wal.rs:179-195), then the replay
\* of all its segments into a fresh memtable
StoreRecover ==
    /\ ~up
    /\ LET r == WALIter_run(OpenedSegs(dir), 1, dir, content)
       IN  /\ r.st = "ok"
           /\ st_mem' = {r.out[i] : i \in 1 .. Len(r.out)}
    /\ up' = TRUE
    /\ segs' = OpenedSegs(dir)
    /\ current_file_num' = 0
    /\ ret' = "ok"
    /\ UNCHANGED <<dir, content, acked, torn, st_imm, st_published, st_acked,
                   catVars, sstVars, planVars, mbVars,
                   srvVars, lateVars>>

StoreInit ==
    /\ st_mem = {}
    /\ st_imm = NoImm
    /\ st_published = {}
    /\ st_acked = {}

StoreNext ==
    \/ \E e \in WalEntries : StoreSet(e)
    \/ StoreSeal
    \/ StorePublish
    \/ StoreTruncate
    \/ StoreCrash
    \/ StoreRecover

(***************************************************************************)
(* Server::call (main.rs:71-96) on the threads that serve connections.     *)
(* The store sits behind one std::sync::RwLock: read() is granted while no *)
(* thread holds the write guard, write() while no thread holds any guard.  *)
(* The guard is a local of the match arm, so it is dropped when call       *)
(* returns, or when a panic of the store unwinds through call; a panic     *)
(* under the write guard poisons the lock.                                 *)
(***************************************************************************)
Threads == 1 .. NumThreads

NoThread == 0

SrvVals == 1 .. NumSrvVals

\* Request (main.rs:72, 84): Getter, and the variants of the `_` arm
Requests ==
    {[kind |-> "Getter", val |-> 0], [kind |-> "Deleter", val |-> 0]}
    \cup {[kind |-> "Setter", val |-> v] : v \in SrvVals}

NoRequest == [kind |-> "none", val |-> 0]

NoResponse == [kind |-> "none", val |-> 0, msg |-> ""]

\* what store.apply / apply_mut returns: Ok, or an Err whose msg names the
\* status of the failed read or write
StoreErrors == {"ChecksumError", "InvalidData", "IOError"}

StoreResults == {"Ok"} \cup StoreErrors

\* a connection hands a request to call
Call(t, req) ==
    /\ srv_pc[t] = "idle"
    /\ srv_pc' = [srv_pc EXCEPT ![t] = "lock"]
    /\ srv_req' = [srv_req EXCEPT ![t] = req]
    /\ UNCHANGED <<srv_readers, srv_writer, srv_poisoned, srv_store, srv_resp,
                   walVars, catVars, sstVars, planVars, mbVars, storeVars, lateVars>>

Lock_read_for_all(t) ==
    /\ srv_pc[t] = "lock"
    /\ srv_writer = NoThread
    /\ srv_readers' = srv_readers \cup {t}
    /\ srv_pc' = [srv_pc EXCEPT ![t] = "apply"]
    /\ UNCHANGED <<srv_req, srv_writer, srv_poisoned, srv_store, srv_resp,
                   walVars, catVars, sstVars, planVars, mbVars, storeVars, lateVars>>

\* main.rs:73-76 and 85-88: self.store.read() for a Getter, self.store.write()
\* for every other request; a poisoned lock still hands out its guard
\* (poisoned.into_inner())
Lock(t) ==
    /\ srv_pc[t] = "lock"
    /\ IF srv_req[t].kind = "Getter"
       THEN /\ srv_writer = NoThread
            /\ srv_readers' = srv_readers \cup {t}
            /\ UNCHANGED srv_writer
       ELSE /\ srv_writer = NoThread
            /\ srv_readers = {}
            /\ srv_writer' = t
            /\ UNCHANGED srv_readers
    /\ srv_pc' = [srv_pc EXCEPT ![t] = "apply"]
    /\ UNCHANGED <<srv_req, srv_poisoned, srv_store, srv_resp,
                   walVars, catVars, sstVars, planVars, mbVars, storeVars, lateVars>>

Apply_err_fails_future(t, res) ==
    /\ srv_pc[t] = "apply"
    /\ LET req == srv_req[t]
       IN  /\ srv_store' = IF res # "Ok" \/ req.kind = "Getter" THEN srv_store
                           ELSE req.val
           /\ srv_resp' = [srv_resp EXCEPT ![t] =
                             IF res # "Ok"
                             THEN [kind |-> "Err", val |-> 0, msg |-> res]
                             ELSE IF req.kind = "Getter"
                             THEN [kind |-> "Value", val |-> srv_store, msg |-> ""]
                             ELSE [kind |-> "Done", val |-> 0, msg |-> ""]]
    /\ srv_pc' = [srv_pc EXCEPT ![t] = "done"]
    /\ UNCHANGED <<srv_req, srv_readers, srv_writer, srv_poisoned,
                   walVars, catVars, sstVars, planVars, mbVars, storeVars, lateVars>>

\* main.rs:78-81 and 90-93: store.apply(req) or store.apply_mut(req) inside
\* future::done: Ok(response) is passed on, Err(e) becomes
\* Ok(Response::ServerError(e.msg)); either way the future is Ok
Apply(t, res) ==
    /\ srv_pc[t] = "apply"
    /\ LET req == srv_req[t]
       IN  /\ srv_store' = IF res # "Ok" \/ req.kind = "Getter" THEN srv_store
                           ELSE req.val
           /\ srv_resp' = [srv_resp EXCEPT ![t] =
                             IF res # "Ok"
                             THEN [kind |-> "ServerError", val |-> 0, msg |-> res]
                             ELSE IF req.kind = "Getter"
                             THEN [kind |-> "Value", val |-> srv_store, msg |-> ""]
                             ELSE [kind |-> "Done", val |-> 0, msg |-> ""]]
    /\ srv_pc' = [srv_pc EXCEPT ![t] = "done"]
    /\ UNCHANGED <<srv_req, srv_readers, srv_writer, srv_poisoned,
                   walVars, catVars, sstVars, planVars, mbVars, storeVars, lateVars>>

\* the guard goes out of scope: a read guard leaves the readers, the write
\* guard frees the lock
drop_guard(t) ==
    /\ srv_readers' = srv_readers \ {t}
    /\ srv_writer' = IF srv_writer = t THEN NoThread ELSE srv_writer

\* main.rs:83, 95: the match arm ends, the boxed future is returned and the
\* response handed to the connection
Return(t) ==
    /\ srv_pc[t] = "done"
    /\ drop_guard(t)
    /\ srv_pc' = [srv_pc EXCEPT ![t] = "idle"]
    /\ srv_req' = [srv_req EXCEPT ![t] = NoRequest]
    /\ srv_resp' = [srv_resp EXCEPT ![t] = NoResponse]
    /\ UNCHANGED <<srv_poisoned, srv_store,
                   walVars, catVars, sstVars, planVars, mbVars, storeVars, lateVars>>

\* the store panics inside apply or apply_mut: the unwinding drops the guard,
\* and a write guard dropped while panicking poisons the lock
Panic(t) ==
    /\ srv_pc[t] = "apply"
    /\ drop_guard(t)
    /\ srv_poisoned' = (srv_poisoned \/ srv_writer = t)
    /\ srv_pc' = [srv_pc EXCEPT ![t] = "idle"]
    /\ srv_req' = [srv_req EXCEPT ![t] = NoRequest]
    /\ srv_resp' = [srv_resp EXCEPT ![t] = NoResponse]
    /\ UNCHANGED <<srv_store,
                   walVars, catVars, sstVars, planVars, mbVars, storeVars, lateVars>>

SrvInit ==
    /\ srv_pc = [t \in Threads |-> "idle"]
    /\ srv_req = [t \in Threads |-> NoRequest]
    /\ srv_readers = {}
    /\ srv_writer = NoThread
    /\ srv_poisoned = FALSE
    /\ srv_store = 0
    /\ srv_resp = [t \in Threads |-> NoResponse]

SrvNext ==
    \/ \E t \in Threads : \E req \in Requests : Call(t, req)
    \/ \E t \in Threads : Lock(t)
    \/ \E t \in Threads : \E res \in StoreResults : Apply(t, res)
    \/ \E t \in Threads : Return(t)
    \/ \E t \in Threads : Panic(t)

(***************************************************************************)
(* The block frame (block.rs:39-66): payload | compression type | masked   *)
(* CRC32C of payload||type, four bytes little-endian.  A u32 is the record *)
(* [hi, lo] of its two 16-bit halves.                                      *)
(***************************************************************************)
BLOCK_CKSUM_LEN == 4

BLOCK_CTYPE_LEN == 1

U32(hi, lo) == [hi |-> hi, lo |-> lo]

\* exclusive or of two n-bit numbers
RECURSIVE XorN(_, _, _)
XorN(a, b, n) ==
    IF n = 0 THEN 0
    ELSE (((a % 2) + (b % 2)) % 2) + (2 * XorN(a \div 2, b \div 2, n - 1))

Xor32(x, y) == U32(XorN(x.hi, y.hi, 16), XorN(x.lo, y.lo, 16))

Shr1(x) == U32(x.hi \div 2, (x.lo \div 2) + (32768 * (x.hi % 2)))

\* rotations of a u32 by one bit, and by sixteen (the halves change places)
Rotl1(x) == U32(((x.hi * 2) % 65536) + (x.lo \div 32768),
                ((x.lo * 2) % 65536) + (x.hi \div 32768))

Rotr1(x) == U32((x.hi \div 2) + (32768 * (x.lo % 2)),
                (x.lo \div 2) + (32768 * (x.hi % 2)))

Swap16(x) == U32(x.lo, x.hi)

\* wrapping addition and subtraction of u32
Add32(x, y) ==
    LET lo == x.lo + y.lo
    IN  U32((x.hi + y.hi + (lo \div 65536)) % 65536, lo % 65536)

Sub32(x, y) ==
    LET borrow == IF x.lo < y.lo THEN 1 ELSE 0
    IN  U32((x.hi - y.hi - borrow + 65536) % 65536,
            (x.lo - y.lo + 65536) % 65536)

\* crc32::CASTAGNOLI, the reflected polynomial 0x82F63B78
CASTAGNOLI == U32(33526, 15224)

AllOnes == U32(65535, 65535)

\* the eight shift steps of one byte of input
RECURSIVE crc_shift(_, _)
crc_shift(crc, n) ==
    IF n = 0 THEN crc
    ELSE IF crc.lo % 2 = 1 THEN crc_shift(Xor32(Shr1(crc), CASTAGNOLI), n - 1)
    ELSE crc_shift(Shr1(crc), n - 1)

RECURSIVE crc_update(_, _)
crc_update(crc, data) ==
    IF data = <<>> THEN crc
    ELSE crc_update(crc_shift(Xor32(crc, U32(0, Head(data))), 8), Tail(data))

\* Digest::new(CASTAGNOLI), write(data), sum32() (block.rs:63-65)
sum32(data) == Xor32(crc_update(AllOnes, data), AllOnes)

\* util::mask_crc and util::unmask_crc: rotate right by 15 and add the
\* constant 0xa282ead8; subtract it and rotate left by 15
kMaskDelta == U32(41602, 60120)

mask_crc(c) == Add32(Rotl1(Swap16(c)), kMaskDelta)

unmask_crc(m) == Rotr1(Swap16(Sub32(m, kMaskDelta)))

\* u32::decode_fixed and u32::encode_fixed: four bytes, little-endian
decode_fixed(b) == U32(b[3] + (256 * b[4]), b[1] + (256 * b[2]))

encode_fixed(x) == <<x.lo % 256, x.lo \div 256, x.hi % 256, x.hi \div 256>>

\* Block::verify_block (block.rs:62-66)
verify_block(data, want) == sum32(data) = want

\* options::int_to_compress_type: 0 is None, 1 is Snappy, anything else is
\* no compression type
int_to_compress_type(n) ==
    IF n = 0 THEN <<"None">> ELSE IF n = 1 THEN <<"Snappy">> ELSE <<>>

\* the elements of a Snappy stream.  A literal tag t (t % 4 = 0, t < 240)
\* is followed by t \div 4 + 1 bytes; a copy needs bytes already produced and
\* offset bytes after its tag, which no stream of at most four bytes has
RECURSIVE snappy_elements(_)
snappy_elements(body) ==
    IF body = <<>> THEN [ok |-> TRUE, bytes |-> <<>>]
    ELSE LET tag == Head(body)
             len == (tag \div 4) + 1
         IN  IF tag % 4 # 0 \/ tag >= 240 \/ Len(body) - 1 < len
             THEN [ok |-> FALSE, bytes |-> <<>>]
             ELSE LET rest == snappy_elements(SubSeq(body, len + 2, Len(body)))
                  IN  [ok |-> rest.ok,
                       bytes |-> SubSeq(body, 2, len + 1) \o rest.bytes]

\* snap::Decoder::decompress_vec: the length preamble (one byte below 128),
\* then the elements, which must produce exactly that many bytes
decompress_vec(buf) ==
    IF buf = <<>> \/ Head(buf) >= 128 THEN [ok |-> FALSE, bytes |-> <<>>]
    ELSE LET e == snappy_elements(Tail(buf))
         IN  IF e.ok /\ Len(e.bytes) = Head(buf) THEN e
             ELSE [ok |-> FALSE, bytes |-> <<>>]

\* reader::read_bytes: seek to location.offset and read location.size bytes;
\* a short read is an IOError
read_bytes(file, location) ==
    IF location.offset + location.size > Len(file)
    THEN [ok |-> FALSE, data |-> <<>>]
    ELSE [ok |-> TRUE,
          data |-> SubSeq(file, location.offset + 1,
                          location.offset + location.size)]

Result(kind, block) == [kind |-> kind, block |-> block]

new_from_location_ctype_first(file, location) ==
    LET r == read_bytes(file, location)
        n == Len(r.data)
    IN  IF ~r.ok THEN Result("IOError", <<>>)
        ELSE IF n < BLOCK_CKSUM_LEN + BLOCK_CTYPE_LEN THEN Result("panic", <<>>)
        ELSE LET buf   == SubSeq(r.data, 1, n - BLOCK_CKSUM_LEN - BLOCK_CTYPE_LEN)
                 ctype == int_to_compress_type(r.data[n - BLOCK_CKSUM_LEN])
                 cksum == SubSeq(r.data, n - BLOCK_CKSUM_LEN + 1, n)
             IN  IF ctype = <<>> THEN Result("InvalidData", <<>>)
                 ELSE IF ctype = <<"Snappy">> /\ ~decompress_vec(buf).ok
                 THEN Result("SnapError", <<>>)
                 ELSE IF ~verify_block(SubSeq(r.data, 1, n - BLOCK_CKSUM_LEN),
                                       unmask_crc(decode_fixed(cksum)))
                 THEN Result("ChecksumError", <<>>)
                 ELSE IF ctype = <<"None">> THEN Result("Block", buf)
                 ELSE Result("Block", decompress_vec(buf).bytes)

\* Block::new_from_location (block.rs:39-60).  The slice bounds of lines 41
\* and 45 are data.len() - 4 and data.len() - 5 in usize: with fewer bytes
\* than that the subtraction or the slicing panics.
new_from_location(file, location) ==
    LET r == read_bytes(file, location)
        n == Len(r.data)
    IN  IF ~r.ok THEN Result("IOError", <<>>)
        ELSE IF n < BLOCK_CKSUM_LEN THEN Result("panic", <<>>)
        ELSE LET cksum_buf == SubSeq(r.data, n - BLOCK_CKSUM_LEN + 1, n)
             IN  IF ~verify_block(SubSeq(r.data, 1, n - BLOCK_CKSUM_LEN),
                                  unmask_crc(decode_fixed(cksum_buf)))
                 THEN Result("ChecksumError", <<>>)
                 ELSE IF n < BLOCK_CKSUM_LEN + BLOCK_CTYPE_LEN
                 THEN Result("panic", <<>>)
                 ELSE LET ctype == int_to_compress_type(
                                       r.data[n - BLOCK_CKSUM_LEN])
                          buf   == SubSeq(r.data, 1,
                                       n - BLOCK_CKSUM_LEN - BLOCK_CTYPE_LEN)
                      IN  IF ctype = <<"None">> THEN Result("Block", buf)
                          ELSE IF ctype = <<"Snappy">>
                          THEN LET d == decompress_vec(buf)
                               IN  IF d.ok THEN Result("Block", d.bytes)
                                   ELSE Result("SnapError", <<>>)
                          ELSE Result("InvalidData", <<>>)

\* BlockBuilder::flush: the frame of a payload and a compression-type byte
frame(payload, ctype) ==
    LET data == payload \o <<ctype>>
    IN  data \o encode_fixed(mask_crc(sum32(data)))

\* the payloads, the compression-type bytes and the ways a byte is changed
BlkBytes == {0, 1, 2}

RECURSIVE SeqsUpTo(_, _)
SeqsUpTo(S, n) ==
    IF n = 0 THEN {<<>>}
    ELSE LET shorter == SeqsUpTo(S, n - 1)
         IN  shorter \cup {Append(q, x) : q \in {t \in shorter : Len(t) = n - 1},
                                           x \in S}

CtypeBytes == {0, 1, 2}

FlipMasks == {1, 128, 255}

NoResult == Result("none", <<>>)

BlkIdle ==
    /\ blk_file = <<>>
    /\ blk_location = [offset |-> 0, size |-> 0]
    /\ blk_changed = 0
    /\ blk_result = NoResult

\* a file that holds one frame, and the handle of that frame
BlkInit ==
    \E payload \in SeqsUpTo(BlkBytes, MaxPayload) : \E ctype \in CtypeBytes :
        /\ blk_file = frame(payload, ctype)
        /\ blk_location = [offset |-> 0, size |-> Len(payload) + 5]
        /\ blk_changed = 0
        /\ blk_result = NoResult

\* one byte of the file takes another value
ChangeByte(i, m) ==
    /\ blk_changed = 0
    /\ blk_file' = [blk_file EXCEPT ![i] = XorN(blk_file[i], m, 8)]
    /\ blk_changed' = i
    /\ blk_result' = NoResult
    /\ UNCHANGED <<blk_location, baseVars, memVars, itVars>>

\* the decoder is handed another length, as a damaged index entry yields
SetLocation(size) ==
    /\ size # blk_location.size
    /\ blk_location' = [blk_location EXCEPT !.size = size]
    /\ blk_result' = NoResult
    /\ UNCHANGED <<blk_file, blk_changed, baseVars, memVars, itVars>>

Decode ==
    /\ blk_result = NoResult
    /\ blk_result' = new_from_location(blk_file, blk_location)
    /\ UNCHANGED <<blk_file, blk_location, blk_changed, baseVars, memVars, itVars>>

BlkNext ==
    \/ \E i \in 1 .. Len(blk_file) : \E m \in FlipMasks : ChangeByte(i, m)
    \/ \E size \in 0 .. (Len(blk_file) + 1) : SetLocation(size)
    \/ Decode

(***************************************************************************)
(* Memtable (memtable.rs:15-76) with keys and values of one machine word,  *)
(* as in its test.                                                         *)
(***************************************************************************)
MemKeys == 1 .. NumMemKeys

MemVals == {1, 2}

\* size_of_val(&1) of a key plus that of a value (memtable.rs:83)
EntryCharge == 8

\* Memtable::insert (memtable.rs:60-62): SkipList::insert replaces the value
\* of a key that is present; size_ is left as it is
Memtable_insert(m, k, v) == [m EXCEPT !.map_ = [m.map_ EXCEPT ![k] = <<v>>]]

\* Memtable::clear (memtable.rs:64-67)
Memtable_clear(m) == [m EXCEPT !.size_ = 0, !.map_ = [k \in MemKeys |-> <<>>]]

\* Memtable::is_full (memtable.rs:69-71)
Memtable_is_full(m) == FALSE

Memtable_value == [max_size_ |-> mt_max_size, size_ |-> mt_size, map_ |-> mt_map]

MemBecomes(m) ==
    /\ mt_max_size' = m.max_size_
    /\ mt_size' = m.size_
    /\ mt_map' = m.map_

\* the last call and what it returned: the old value of an insert, the
\* answer of an is_full
MemRet(op, old, full) == [op |-> op, old |-> old, full |-> full]

MemInsert(k, v) ==
    /\ MemBecomes(Memtable_insert(Memtable_value, k, v))
    /\ mt_ret' = MemRet("insert", mt_map[k], FALSE)
    /\ UNCHANGED <<baseVars, blkVars, itVars>>

MemClear ==
    /\ MemBecomes(Memtable_clear(Memtable_value))
    /\ mt_ret' = MemRet("clear", <<>>, FALSE)
    /\ UNCHANGED <<baseVars, blkVars, itVars>>

MemIsFull ==
    /\ mt_ret' = MemRet("is_full", <<>>, Memtable_is_full(Memtable_value))
    /\ UNCHANGED <<mt_max_size, mt_size, mt_map, baseVars, blkVars, itVars>>

MemIdle ==
    /\ mt_max_size = EntryCharge
    /\ mt_size = 0
    /\ mt_map = [k \in MemKeys |-> <<>>]
    /\ mt_ret = MemRet("new", <<>>, FALSE)

\* Memtable::new(max_size, max_height) (memtable.rs:22-29)
MemInit ==
    /\ mt_max_size \in {n * EntryCharge : n \in 1 .. NumMemKeys}
    /\ mt_size = 0
    /\ mt_map = [k \in MemKeys |-> <<>>]
    /\ mt_ret = MemRet("new", <<>>, FALSE)

MemNext ==
    \/ \E k \in MemKeys : \E v \in MemVals : MemInsert(k, v)
    \/ MemClear
    \/ MemIsFull

(***************************************************************************)
(* BlockIter over a block of n entries, by entry number: cur is the entry  *)
(* last decoded (current_entry_offset), next the entry the next advance    *)
(* decodes (offset), valid whether current_kv is Some.  An advance at the  *)
(* end of the block fails and leaves the iterator invalid where it stands; *)
(* a prev goes to the entry before cur, and resets the iterator when cur   *)
(* is the first entry or none.                                             *)
(***************************************************************************)
BlockIterState_new == [cur |-> 0, next |-> 1, valid |-> FALSE]

BlockIter_advance(n, st) ==
    IF st.next > n
    THEN [state |-> [st EXCEPT !.valid = FALSE], ret |-> FALSE]
    ELSE [state |-> [cur |-> st.next, next |-> st.next + 1, valid |-> TRUE],
          ret |-> TRUE]

BlockIter_prev(n, st) ==
    IF st.cur <= 1
    THEN [state |-> BlockIterState_new, ret |-> FALSE]
    ELSE [state |-> [cur |-> st.cur - 1, next |-> st.cur, valid |-> TRUE],
          ret |-> TRUE]

BlockIter_seek_to_last(n) == [cur |-> n, next |-> n + 1, valid |-> n >= 1]

\* BlockIter::seek as a state: at the first entry with key >= key, or at the
\* end and invalid
BlockIter_seek_state(block, key) ==
    LET i == BlockIter_seek(block, key)
    IN  IF i = 0 THEN [cur |-> Len(block), next |-> Len(block) + 1, valid |-> FALSE]
        ELSE [cur |-> i, next |-> i + 1, valid |-> TRUE]

(***************************************************************************)
(* TableIter (table_iter.rs:8-148) over the table t, as functions of the   *)
(* value it = [index, data_state, data_block] and of the set fail of the   *)
(* blocks that TableReader::read_block answers with Err.                   *)
(***************************************************************************)
\* TableIter::new (table_iter.rs:16-23)
TableIter_new ==
    [index |-> BlockIterState_new, data_state |-> BlockIterState_new,
     data_block |-> 0]

TableIter_reset_index_only(it) == [it EXCEPT !.index = BlockIterState_new]

\* TableIter::reset (table_iter.rs:120-124)
TableIter_reset(it) == TableIter_new

\* TableIter::valid (table_iter.rs:46-49)
TableIter_valid(it) == it.data_block # 0 /\ it.data_state.valid

\* TableIter::current_kv (table_iter.rs:112-118): <<>> for None
TableIter_current_kv(t, it) ==
    IF TableIter_valid(it)
    THEN <<t.blocks[it.data_block][it.data_state.cur]>>
    ELSE <<>>

\* the block an index entry's handle names
index_block(t, it) == t.index[it.index.cur].v

RECURSIVE TableIter_advance_restart(_, _, _)
TableIter_advance_restart(t, fail, it) ==
    LET d   == BlockIter_advance(Len(t.blocks[it.data_block]), it.data_state)
        it1 == IF it.data_block # 0 THEN [it EXCEPT !.data_state = d.state]
               ELSE it
    IN  IF it.data_block # 0 /\ d.ret
        THEN [it |-> it1, ret |-> TRUE, loads |-> 0]
        ELSE LET ix  == BlockIter_advance(Len(t.index), it1.index)
                 it2 == [it1 EXCEPT !.index = ix.state]
             IN  IF ~ix.ret
                 THEN [it |-> [it2 EXCEPT !.index = BlockIterState_new],
                       ret |-> FALSE, loads |-> 0]
                 ELSE LET r == IF index_block(t, it2) \in fail
                               THEN TableIter_advance_restart(t, fail, it2)
                               ELSE TableIter_advance_restart(t, fail,
                                        [it2 EXCEPT
                                           !.data_state = BlockIterState_new,
                                           !.data_block = index_block(t, it2)])
                      IN  [r EXCEPT !.loads = @ + 1]

RECURSIVE TableIter_advance_stop_at_failure(_, _, _)
TableIter_advance_stop_at_failure(t, fail, it) ==
    LET d   == BlockIter_advance(Len(t.blocks[it.data_block]), it.data_state)
        it1 == IF it.data_block # 0 THEN [it EXCEPT !.data_state = d.state]
               ELSE it
    IN  IF it.data_block # 0 /\ d.ret
        THEN [it |-> it1, ret |-> TRUE, loads |-> 0]
        ELSE LET ix  == BlockIter_advance(Len(t.index), it1.index)
                 it2 == [it1 EXCEPT !.index = ix.state]
             IN  IF ~ix.ret THEN [it |-> it2, ret |-> FALSE, loads |-> 0]
                 ELSE IF index_block(t, it2) \in fail
                 THEN [it |-> it2, ret |-> FALSE, loads |-> 1]
                 ELSE LET r == TableIter_advance_stop_at_failure(t, fail,
                                   [it2 EXCEPT
                                      !.data_state = BlockIterState_new,
                                      !.data_block = index_block(t, it2)])
                      IN  [r EXCEPT !.loads = @ + 1]

\* TableIter::advance (table_iter.rs:51-80); fail is the set of data blocks
\* whose read_block returns Err, loads the number of read_block calls made
RECURSIVE TableIter_advance(_, _, _)
TableIter_advance(t, fail, it) ==
    LET d   == BlockIter_advance(Len(t.blocks[it.data_block]), it.data_state)
        it1 == IF it.data_block # 0 THEN [it EXCEPT !.data_state = d.state]
               ELSE it
    IN  IF it.data_block # 0 /\ d.ret
        THEN [it |-> it1, ret |-> TRUE, loads |-> 0]
        ELSE LET ix  == BlockIter_advance(Len(t.index), it1.index)
                 it2 == [it1 EXCEPT !.index = ix.state]
             IN  IF ~ix.ret THEN [it |-> it2, ret |-> FALSE, loads |-> 0]
                 ELSE LET r == IF index_block(t, it2) \in fail
                               THEN TableIter_advance(t, fail, it2)
                               ELSE TableIter_advance(t, fail,
                                        [it2 EXCEPT
                                           !.data_state = BlockIterState_new,
                                           !.data_block = index_block(t, it2)])
                      IN  [r EXCEPT !.loads = @ + 1]

TableIter_prev_to_block_start(t, fail, it) ==
    LET d   == BlockIter_prev(Len(t.blocks[it.data_block]), it.data_state)
        it1 == IF it.data_block # 0 THEN [it EXCEPT !.data_state = d.state]
               ELSE it
    IN  IF it.data_block # 0 /\ d.ret THEN [it |-> it1, ret |-> TRUE]
        ELSE LET ix  == BlockIter_prev(Len(t.index), it1.index)
                 it2 == [it1 EXCEPT !.index = ix.state]
             IN  IF ~ix.ret \/ index_block(t, it2) \in fail
                 THEN [it |-> TableIter_reset(it2), ret |-> FALSE]
                 ELSE [it |-> [it2 EXCEPT
                                 !.data_state = [cur |-> 1, next |-> 2,
                                                 valid |-> TRUE],
                                 !.data_block = index_block(t, it2)],
                       ret |-> TRUE]

\* TableIter::prev (table_iter.rs:82-110)
TableIter_prev(t, fail, it) ==
    LET d   == BlockIter_prev(Len(t.blocks[it.data_block]), it.data_state)
        it1 == IF it.data_block # 0 THEN [it EXCEPT !.data_state = d.state]
               ELSE it
    IN  IF it.data_block # 0 /\ d.ret THEN [it |-> it1, ret |-> TRUE]
        ELSE LET ix  == BlockIter_prev(Len(t.index), it1.index)
                 it2 == [it1 EXCEPT !.index = ix.state]
             IN  IF ~ix.ret \/ index_block(t, it2) \in fail
                 THEN [it |-> TableIter_reset(it2), ret |-> FALSE]
                 ELSE LET b == index_block(t, it2)
                      IN  [it |-> [it2 EXCEPT
                                     !.data_state =
                                         BlockIter_seek_to_last(Len(t.blocks[b])),
                                     !.data_block = b],
                           ret |-> TRUE]

\* TableIter::seek (table_iter.rs:126-138)
TableIter_seek(t, fail, it, key) ==
    LET it1 == [TableIter_reset(it) EXCEPT
                   !.index = BlockIter_seek_state(t.index, key)]
    IN  IF ~it1.index.valid \/ index_block(t, it1) \in fail THEN it1
        ELSE LET b == index_block(t, it1)
             IN  [it1 EXCEPT !.data_state = BlockIter_seek_state(t.blocks[b], key),
                             !.data_block = b]

\* TableIter::seek_to_last (table_iter.rs:140-147): the assert panics when
\* the cursor is not valid
TableIter_seek_to_last(t, fail, it) ==
    LET last == BlockIter_seek_to_last(Len(t.index))
        back == BlockIter_prev(Len(t.index), last)
        a    == TableIter_advance(t, fail,
                    [TableIter_reset(it) EXCEPT !.index = back.state])
    IN  [it |-> a.it, ret |-> TableIter_valid(a.it)]

TableIter_value ==
    [index |-> it_index, data_state |-> it_data_state,
     data_block |-> it_data_block]

ItBecomes(it) ==
    /\ it_index' = it.index
    /\ it_data_state' = it.data_state
    /\ it_data_block' = it.data_block

\* the number, in table order, of the entry the cursor is at; 0 for None
PosOf(t, it) ==
    LET kv == TableIter_current_kv(t, it)
    IN  IF kv = <<>> THEN 0 ELSE kv[1].v

Pos == PosOf(sst_table, TableIter_value)

NoKey == <<>>

ItRet(op, ok, key, from) == [op |-> op, ok |-> ok, key |-> key, from |-> from]

\* the number of entries of the table
RECURSIVE CountEntries(_)
CountEntries(blocks) ==
    IF blocks = <<>> THEN 0 ELSE Len(Head(blocks)) + CountEntries(Tail(blocks))

NumEntries(t) == CountEntries(t.blocks)

Advance ==
    /\ LET a == TableIter_advance(sst_table, it_fail, TableIter_value)
       IN  /\ ItBecomes(a.it)
           /\ it_ret' = ItRet("advance", a.ret, NoKey, Pos)
    /\ it_run' = IF it_run.base = "new" /\ it_run.n <= NumEntries(sst_table) + 1
                 THEN [it_run EXCEPT !.n = it_run.n + 1]
                 ELSE [base |-> "none", n |-> 0]
    /\ UNCHANGED <<it_fail, baseVars, blkVars, memVars>>

Prev ==
    /\ LET a == TableIter_prev(sst_table, it_fail, TableIter_value)
       IN  /\ ItBecomes(a.it)
           /\ it_ret' = ItRet("prev", a.ret, NoKey, Pos)
    /\ it_run' = IF it_run.base = "last" /\ it_run.n < NumEntries(sst_table)
                 THEN [it_run EXCEPT !.n = it_run.n + 1]
                 ELSE [base |-> "none", n |-> 0]
    /\ UNCHANGED <<it_fail, baseVars, blkVars, memVars>>

Reset ==
    /\ ItBecomes(TableIter_reset(TableIter_value))
    /\ it_ret' = ItRet("reset", TRUE, NoKey, 0)
    /\ it_run' = [base |-> "new", n |-> 0]
    /\ UNCHANGED <<it_fail, baseVars, blkVars, memVars>>

Seek(key) ==
    /\ ItBecomes(TableIter_seek(sst_table, it_fail, TableIter_value, key))
    /\ it_ret' = ItRet("seek", TRUE, key, 0)
    /\ it_run' = [base |-> "none", n |-> 0]
    /\ UNCHANGED <<it_fail, baseVars, blkVars, memVars>>

SeekToLast ==
    /\ LET a == TableIter_seek_to_last(sst_table, it_fail, TableIter_value)
       IN  /\ ItBecomes(a.it)
           /\ it_ret' = ItRet("seek_to_last", a.ret, NoKey, 0)
    /\ it_run' = [base |-> "last", n |-> 0]
    /\ UNCHANGED <<it_fail, baseVars, blkVars, memVars>>

ItIdle ==
    /\ it_index = BlockIterState_new
    /\ it_data_state = BlockIterState_new
    /\ it_data_block = 0
    /\ it_fail = {}
    /\ it_ret = ItRet("new", TRUE, NoKey, 0)
    /\ it_run = [base |-> "new", n |-> 0]

\* a new cursor on a table some of whose data blocks cannot be read
ItFailInit ==
    /\ it_index = BlockIterState_new
    /\ it_data_state = BlockIterState_new
    /\ it_data_block = 0
    /\ it_fail \in SUBSET (1 .. Len(sst_table.blocks))
    /\ it_ret = ItRet("new", TRUE, NoKey, 0)
    /\ it_run = [base |-> "none", n |-> 0]

ItFailNext ==
    \/ Advance
    \/ Prev
    \/ Reset

ItNext ==
    \/ Advance
    \/ Prev
    \/ Reset
    \/ \E key \in SstKeys : Seek(key)
    \/ SeekToLast

(***************************************************************************)
(* The specifications: Spec runs the WAL, CatalogSpec runs the catalog,    *)
(* TableSpec gets keys from a built table.                                 *)
(***************************************************************************)
Init == WalInit /\ CatInit /\ SstIdle /\ PlanIdle /\ MbInit /\ StoreInit /\ SrvInit /\ BlkIdle /\ MemIdle /\ ItIdle

Next == WalNext

Spec == Init /\ [][Next]_vars

CatalogSpec == Init /\ [][CatNext]_vars

TableSpecInit ==
    /\ WalInit /\ CatInit /\ PlanIdle /\ MbInit /\ StoreInit /\ SrvInit /\ BlkIdle /\ MemIdle /\ ItIdle
    /\ TableInit

TableSpec == TableSpecInit /\ [][TableNext]_vars

PlannerSpecInit ==
    /\ WalInit /\ CatInit /\ SstIdle /\ MbInit /\ StoreInit /\ SrvInit /\ BlkIdle /\ MemIdle /\ ItIdle
    /\ PlanInit

PlannerSpec == PlannerSpecInit /\ [][PlanNext]_vars

ManifestSpec == Init /\ [][MbNext]_vars

StoreSpec == Init /\ [][StoreNext]_vars

ServerSpec == Init /\ [][SrvNext]_vars

BlockSpecInit ==
    /\ WalInit /\ CatInit /\ SstIdle /\ PlanIdle /\ MbInit /\ StoreInit /\ SrvInit
    /\ BlkInit /\ MemIdle /\ ItIdle

BlockSpec == BlockSpecInit /\ [][BlkNext]_vars

MemtableSpecInit ==
    /\ WalInit /\ CatInit /\ SstIdle /\ PlanIdle /\ MbInit /\ StoreInit /\ SrvInit
    /\ BlkIdle /\ MemInit /\ ItIdle

MemtableSpec == MemtableSpecInit /\ [][MemNext]_vars

IterSpecInit ==
    /\ WalInit /\ CatInit /\ PlanIdle /\ MbInit /\ StoreInit /\ SrvInit
    /\ BlkIdle /\ MemIdle /\ ItIdle
    /\ TableInit

IterSpec == IterSpecInit /\ [][ItNext]_vars

IterFailSpecInit ==
    /\ WalInit /\ CatInit /\ PlanIdle /\ MbInit /\ StoreInit /\ SrvInit
    /\ BlkIdle /\ MemIdle
    /\ TableInit
    /\ ItFailInit

IterFailSpec == IterFailSpecInit /\ [][ItFailNext]_vars

(***************************************************************************)
(* Claims about the catalog.                                               *)
(***************************************************************************)
UpperLevels == Levels \ {0}

\* consecutive readers: max_key[i] < min_key[i+1]
Consecutive(rs) ==
    \A i \in 1 .. (Len(rs) - 1) : max_key(rs[i]) < min_key(rs[i + 1])

\* no two readers of the list have a key in both their ranges
RangesDisjoint(rs) ==
    \A i, j \in 1 .. Len(rs) :
        i # j => (max_key(rs[i]) < min_key(rs[j]) \/ max_key(rs[j]) < min_key(rs[i]))

\* C6: after any sequence of add / add_readers / remove_by_file_names at a
\* level >= 1, consecutive readers satisfy max_key[i] < min_key[i+1].
C6_LevelsDisjoint ==
    \A l \in UpperLevels : Consecutive(readers_[l])

\* readers in non-decreasing min_key order
SortedByMinKey(rs) ==
    \A i \in 1 .. (Len(rs) - 1) : min_key(rs[i]) <= min_key(rs[i + 1])

\* C7: after load and after any sequence of add / add_readers /
\* remove_by_file_names, the readers of every level >= 1 are in
\* non-decreasing min_key order.
C7_SortedByMinKey ==
    \A l \in UpperLevels : SortedByMinKey(readers_[l])

\* a level >= 1 whose manifest lists the files in another order than the
\* readers stand in, with readers of different min_key
C7_Witness ==
    \E l \in UpperLevels :
        /\ Len(readers_[l]) >= 2
        /\ manifest_[l] # [i \in 1 .. Len(readers_[l]) |-> readers_[l][i].file_name]
        /\ min_key(readers_[l][1]) < min_key(readers_[l][Len(readers_[l])])

\* the index of the most recently added reader of rs among the indices in S
Newest(rs, S) == CHOOSE i \in S : \A j \in S : rs[j].file_name <= rs[i].file_name

\* C8: get(key) returns the value from the most recently added level-0
\* reader whose [min_key, max_key] range contains the key.
C8_NewestInRange ==
    \A k \in Keys :
        LET S == {i \in 1 .. Len(readers_[0]) : InRange(readers_[0][i], k)}
        IN  S # {} =>
               get(readers_, k) = TableReader_get(readers_[0][Newest(readers_[0], S)], k)

\* C8, amended: get(key) returns the value from the most recently added
\* level-0 reader that stores the key.
C8_NewestStoring ==
    \A k \in Keys :
        LET S == {i \in 1 .. Len(readers_[0]) : k \in readers_[0][i].keys}
        IN  S # {} =>
               get(readers_, k) = TableReader_get(readers_[0][Newest(readers_[0], S)], k)

\* two level-0 readers store one key, and the newer one is returned
C8_Witness ==
    \E k \in Keys :
        /\ Cardinality({i \in 1 .. Len(readers_[0]) : k \in readers_[0][i].keys}) >= 2
        /\ get(readers_, k) # <<>>

\* the readers of rs whose range contains key, most recently added first
RECURSIVE NewestFirst(_, _)
NewestFirst(rs, S) ==
    IF S = {} THEN <<>>
    ELSE LET i == Newest(rs, S)
         IN  <<rs[i]>> \o NewestFirst(rs, S \ {i})

\* C9: level-0 readers stand in the order they were added, also after
\* removals, and search_readers(0, key) returns exactly the level-0 readers
\* whose range contains key, most recently added first.
C9_Level0InsertionOrder ==
    /\ \A i \in 1 .. (Len(readers_[0]) - 1) :
          readers_[0][i].file_name < readers_[0][i + 1].file_name
    /\ \A k \in Keys :
          search_readers(readers_, 0, k) =
              NewestFirst(readers_[0],
                          {i \in 1 .. Len(readers_[0]) : InRange(readers_[0][i], k)})

\* level 0 holds two survivors of a removal, and a search returns both
C9_Witness ==
    /\ Len(readers_[0]) = 2
    /\ readers_[0][1].file_name = 1
    /\ readers_[0][2].file_name = 3
    /\ tables[2] = {}
    /\ \A l \in Levels : \A i \in 1 .. Len(readers_[l]) : readers_[l][i].file_name # 2
    /\ \E k \in Keys : Len(search_readers(readers_, 0, k)) = 2

\* the readers of rs whose range contains key, in list order
RECURSIVE Containing(_, _)
Containing(rs, key) ==
    IF rs = <<>> THEN <<>>
    ELSE (IF InRange(Head(rs), key) THEN <<Head(rs)>> ELSE <<>>)
            \o Containing(Tail(rs), key)

\* C10: at a level >= 1 whose readers are sorted by min_key and pairwise
\* disjoint, search_readers(level, key) returns exactly the readers whose
\* range contains key, at most one.
C10_SearchSortedLevel ==
    \A l \in UpperLevels :
        (SortedByMinKey(readers_[l]) /\ RangesDisjoint(readers_[l])) =>
            \A k \in Keys :
                /\ search_readers(readers_, l, k) = Containing(readers_[l], k)
                /\ Len(search_readers(readers_, l, k)) <= 1

\* a sorted disjoint level of two readers or more with a gap: a key at the
\* min_key of a later reader is found, a key in the gap finds nothing
C10_Witness ==
    \E l \in UpperLevels :
        /\ Len(readers_[l]) >= 2
        /\ SortedByMinKey(readers_[l])
        /\ RangesDisjoint(readers_[l])
        /\ \E k \in Keys :
              /\ min_key(readers_[l][2]) = k
              /\ search_readers(readers_, l, k) = <<readers_[l][2]>>
        /\ \E k \in Keys :
              /\ max_key(readers_[l][1]) < k
              /\ k < min_key(readers_[l][2])
              /\ search_readers(readers_, l, k) = <<>>

\* the candidates of level l for key k that store an entry for k (a live value
\* or an encoded tombstone: the catalog does not tell them apart), as indices
\* into search_readers(readers_, l, k)
StoringCandidates(l, k) ==
    {i \in 1 .. Len(search_readers(readers_, l, k)) :
        k \in search_readers(readers_, l, k)[i].keys}

\* C11: get(key) returns the entry of the first candidate, at the lowest
\* level, that stores the key: no entry of a deeper level is returned when a
\* candidate above stores the key, and get is None only when no candidate at
\* any level stores it.
C11_FirstLevelWins ==
    \A k \in Keys :
        /\ (get(readers_, k) = <<>>) <=> (\A l \in Levels : StoringCandidates(l, k) = {})
        /\ \A l \in Levels :
              (StoringCandidates(l, k) # {} /\ \A u \in 0 .. (l - 1) : StoringCandidates(u, k) = {})
                  => LET S == StoringCandidates(l, k)
                         i == CHOOSE x \in S : \A y \in S : x <= y
                     IN  get(readers_, k) = <<search_readers(readers_, l, k)[i].file_name>>

\* a key stored at level 0 and at level 1, and a key stored at level 1 only
C11_Witness ==
    /\ \E k \in Keys : StoringCandidates(0, k) # {} /\ StoringCandidates(1, k) # {}
    /\ \E k \in Keys : StoringCandidates(0, k) = {} /\ StoringCandidates(1, k) # {}
                        /\ search_readers(readers_, 0, k) # <<>>

(***************************************************************************)
(* Claims about a built SSTable.                                           *)
(***************************************************************************)
\* the entries stored in the table, block after block
RECURSIVE StoredEntries(_)
StoredEntries(blocks) ==
    IF blocks = <<>> THEN <<>> ELSE Head(blocks) \o StoredEntries(Tail(blocks))

\* C12: a point get on a built table returns the stored value for every key
\* written by the builder, whatever block boundary the key sits next to, and
\* None for every other key.
C12_TableRoundTrip ==
    sst_probe # <<>> =>
        LET es == StoredEntries(sst_table.blocks)
            S  == {i \in 1 .. Len(es) : es[i].k = sst_probe}
        IN  sst_got = IF S = {} THEN <<>> ELSE <<es[CHOOSE i \in S : TRUE].v>>

(***************************************************************************)
(* Claims about the compaction planner.                                    *)
(***************************************************************************)
\* 10^e
RECURSIVE Pow10(_)
Pow10(e) == IF e = 0 THEN 1 ELSE 10 * Pow10(e - 1)

\* the sum of the sizes of the readers of a level, in units of 512 KiB
RECURSIVE LevelUnits(_)
LevelUnits(rs) == IF rs = <<>> THEN 0 ELSE Head(rs).size + LevelUnits(Tail(rs))

Returned(l) == \E j \in 1 .. Len(plan_out.levels) : plan_out.levels[j] = l

\* C13: compute_compaction_levels returns level 0 iff it holds at least
\* l0_compaction_trigger readers, and a level L >= 1 iff the sizes of its
\* readers sum to at least 10 MiB x 10^(L-1); no level is returned twice.
C13_LevelsOverThreshold ==
    plan_out.done =>
        /\ Returned(0) <=> Len(plan_readers[0]) >= l0_compaction_trigger
        /\ \A l \in PlanLevels \ {0} :
              Returned(l) <=> LevelUnits(plan_readers[l]) >= 20 * Pow10(l - 1)
        /\ \A i, j \in 1 .. Len(plan_out.levels) :
              i # j => plan_out.levels[i] # plan_out.levels[j]
        /\ \A j \in 1 .. Len(plan_out.levels) : plan_out.levels[j] \in PlanLevels

\* level 0 at its trigger, level 1 just under its limit and level 2 at its
\* limit exactly
C13_Witness ==
    /\ plan_out.done
    /\ Len(plan_readers[0]) = 4
    /\ LevelUnits(plan_readers[1]) = 10
    /\ LevelUnits(plan_readers[2]) = 200
    /\ Returned(0) /\ ~Returned(1) /\ Returned(2)

\* the score of level l as a fraction
ScoreOf(l) ==
    IF l = 0 THEN [n |-> Len(plan_readers[0]), d |-> l0_compaction_trigger]
    ELSE [n |-> LevelUnits(plan_readers[l]), d |-> 20 * Pow10(l - 1)]

\* the score of l is strictly higher than the score of m
Higher(l, m) == ScoreOf(l).n * ScoreOf(m).d > ScoreOf(m).n * ScoreOf(l).d

\* C14: the levels returned by compute_compaction_levels stand in
\* non-increasing score order, and with 5 level-0 readers (trigger 4) level 0
\* comes first unless another level has a strictly higher score.
C14_SortedByScore ==
    plan_out.done =>
        /\ \A j \in 1 .. (Len(plan_out.levels) - 1) :
              ~Higher(plan_out.levels[j + 1], plan_out.levels[j])
        /\ (Len(plan_readers[0]) = 5 /\ \A l \in PlanLevels \ {0} : ~Higher(l, 0))
              => (plan_out.levels # <<>> /\ plan_out.levels[1] = 0)

\* 5 level-0 readers, level 1 at the same score 1.25 and level 2 at a lower
\* score >= 1: all three are returned, level 0 first
C14_Witness ==
    /\ plan_out.done
    /\ Len(plan_readers[0]) = 5
    /\ LevelUnits(plan_readers[1]) = 25
    /\ LevelUnits(plan_readers[2]) = 210
    /\ plan_out.levels = <<0, 1, 2>>

(***************************************************************************)
(* Claims about the manifest.                                              *)
(***************************************************************************)
\* C15: after a crash at any point of a manifest flush, the first flush
\* included, the restart recovers either the manifest before the flush or the
\* manifest the flush was writing, never a partially written file.
C15_ManifestAtomic ==
    /\ mb_state # "failed"
    /\ mb_state = "up" => mb_mem \in {mb_pre, mb_post}

(***************************************************************************)
(* Claims about failures and unlinking in the catalog.                     *)
(***************************************************************************)
\* a call of add_readers or remove_by_file_names whose manifest flush fails
FailedFlushCall ==
    \/ \E level \in Levels : \E n \in 1 .. MaxBatch : \E batch \in [1 .. n -> TableKeySets] :
          AddReaders(level, batch, FALSE)
    \/ \E level \in Levels : \E names \in SUBSET FileNames :
          RemoveByFileNames(level, names, FALSE)

\* C16: when the manifest flush inside add_readers or remove_by_file_names
\* fails, the reader lists and the in-memory manifest are as before the call
\* and match the manifest on disk.
C16_FailedFlushRollsBack ==
    [][FailedFlushCall =>
          /\ readers_' = readers_
          /\ manifest_' = manifest_
          /\ manifest_' = disk_manifest']_vars

\* file f is unlinked in the step
Unlinked(f) == tables[f] # {} /\ tables'[f] = {}

\* file f is listed by the manifest m
Listed(m, f) == \E l \in Levels : \E j \in 1 .. Len(m[l]) : m[l][j] = f

C18_UnlinkedUnreferenced ==
    [][\A f \in FileNames :
          Unlinked(f) =>
              /\ ~Listed(manifest_', f)
              /\ \A l \in Levels : \A j \in 1 .. Len(readers_'[l]) :
                    readers_'[l][j].file_name # f]_vars

(***************************************************************************)
(* Claims about the store's write path.                                    *)
(***************************************************************************)
\* the entries a segment file holds, as its iteration decodes them
FileEntries(n) ==
    LET r == WALSegIter_run(content[n], 0)
    IN  {r.out[i] : i \in 1 .. Len(r.out)}

InLiveWal(e) == \E n \in dir : e \in FileEntries(n)

\* C19: whatever the point at which the process stops, every write the store
\* acknowledged is held by a WAL segment file of the directory or by an
\* SSTable the flushed manifest lists; the store truncates a segment only
\* after the flush that published what the segment records.
C19_AckedWritesDurable ==
    \A e \in st_acked : InLiveWal(e) \/ e \in st_published


(***************************************************************************)
(* Claims about Server::call.                                              *)
(***************************************************************************)
\* thread t is between the acquisition of its guard and the end of call
Executing(t) == srv_pc[t] \in {"apply", "done"}

Mutation(t) == srv_req[t].kind \in {"Setter", "Deleter"}

\* C20: a Getter runs holding a read guard and a Setter or Deleter holding
\* the write guard; while a mutation runs no other request runs; a thread
\* that is not inside a call holds no guard.
C20_LockDiscipline ==
    \A t \in Threads :
        /\ (Executing(t) /\ srv_req[t].kind = "Getter") =>
              (t \in srv_readers /\ srv_writer = NoThread)
        /\ (Executing(t) /\ Mutation(t)) =>
              /\ srv_writer = t
              /\ srv_readers = {}
              /\ \A u \in Threads \ {t} : ~Executing(u)
        /\ ~Executing(t) => (t \notin srv_readers /\ srv_writer # t)

\* two gets run at once while a mutation waits for the lock, after an earlier
\* call has finished and released its guard
C20_Witness ==
    \E t, u, w \in Threads :
        /\ t # u
        /\ Executing(t) /\ srv_req[t].kind = "Getter"
        /\ Executing(u) /\ srv_req[u].kind = "Getter"
        /\ srv_pc[w] = "lock" /\ Mutation(w)
        /\ srv_store # 0

\* the lock is free for the guard the request of thread t asks for
LockFreeFor(t) ==
    /\ srv_writer = NoThread
    /\ srv_req[t].kind = "Getter" \/ srv_readers = {}

\* C29: when the store returns an error, call ends with the response
\* ServerError carrying the error's message, as a response and not as a
\* failed future; and a thread that asks for the lock after it was poisoned
\* is given its guard as soon as the lock is free.
C29_ErrorsBecomeServerError ==
    [][\A t \in Threads :
          /\ \A e \in StoreErrors :
                Apply(t, e) =>
                    /\ srv_resp'[t] = [kind |-> "ServerError", val |-> 0, msg |-> e]
                    /\ srv_pc'[t] = "done"
          /\ (srv_poisoned /\ srv_pc[t] = "lock" /\ LockFreeFor(t))
                => ENABLED Lock(t)]_vars

\* after a panic under the write guard has poisoned the lock, a later set is
\* answered with ServerError for a checksum error of the store
C29_Witness ==
    \E t \in Threads :
        /\ srv_poisoned
        /\ srv_pc[t] = "done"
        /\ srv_req[t].kind = "Setter"
        /\ srv_resp[t] = [kind |-> "ServerError", val |-> 0, msg |-> "ChecksumError"]

(***************************************************************************)
(* Claims about the block frame.                                           *)
(***************************************************************************)
\* the bytes the decoder read, and whether the handle covers the whole frame
BytesRead == read_bytes(blk_file, blk_location)

WholeFrame == blk_location.offset = 0 /\ blk_location.size = Len(blk_file)

StoredCrcDiffers ==
    LET d == BytesRead.data
        n == Len(d)
    IN  unmask_crc(decode_fixed(SubSeq(d, n - BLOCK_CKSUM_LEN + 1, n)))
            # sum32(SubSeq(d, 1, n - BLOCK_CKSUM_LEN))

\* C21: a decode of bytes whose stored checksum, unmasked, differs from the
\* CRC32C of the bytes before it returns ChecksumError, whatever the
\* compression-type byte is; and after a change to any one byte of a frame
\* (payload, compression type or checksum) the decode of the frame returns
\* ChecksumError.
C21_ChecksumVerifiedFirst ==
    blk_result # NoResult =>
        /\ (BytesRead.ok /\ Len(BytesRead.data) >= BLOCK_CKSUM_LEN
                /\ StoredCrcDiffers)
              => blk_result.kind = "ChecksumError"
        /\ (blk_changed # 0 /\ WholeFrame) => blk_result.kind = "ChecksumError"

\* the compression-type byte of a frame was changed to an unknown type and
\* the decode of the frame returned ChecksumError
C21_Witness ==
    /\ WholeFrame
    /\ blk_changed = Len(blk_file) - BLOCK_CKSUM_LEN
    /\ int_to_compress_type(blk_file[blk_changed]) = <<>>
    /\ blk_result.kind = "ChecksumError"

\* C22: no decode unwinds, whatever the handle and the file content.
C22_DecodeNeverUnwinds == blk_result.kind # "panic"

(***************************************************************************)
(* Claims about the memtable.                                              *)
(***************************************************************************)
\* the byte charge of the keys and values the memtable holds
Charge == EntryCharge * Cardinality({k \in MemKeys : mt_map[k] # <<>>})

\* C23: is_full returns true exactly when the byte charge of what was
\* inserted since the last clear has reached max_size.
C23_FullAtMaxSize ==
    mt_ret.op = "is_full" => (mt_ret.full = (Charge >= mt_max_size))

(***************************************************************************)
(* Claims about the table cursor.                                          *)
(***************************************************************************)
N == NumEntries(sst_table)

Fresh == TableIter_value = TableIter_new

\* a table of several data blocks, one of them with several entries
SeveralBlocks ==
    /\ Len(sst_table.blocks) >= 2
    /\ \E b \in 1 .. Len(sst_table.blocks) : Len(sst_table.blocks[b]) >= 2

\* C24: the k-th advance on a new or reset cursor returns true and stands at
\* the k-th entry of the table, for k up to the number of entries; the new
\* or reset cursor has no current entry; every advance after that returns
\* false and leaves no current entry.
C24_AdvanceVisitsAll ==
    it_run.base = "new" =>
        IF it_run.n = 0 THEN Pos = 0 /\ ~TableIter_valid(TableIter_value)
        ELSE IF it_run.n <= N THEN Pos = it_run.n /\ it_ret.ok
        ELSE Pos = 0 /\ ~it_ret.ok

\* two advances past the last entry of a table of several blocks
C24_Witness ==
    /\ SeveralBlocks
    /\ it_run = [base |-> "new", n |-> N + 2]
    /\ it_ret.op = "advance" /\ ~it_ret.ok

\* C25: a prev at entry i, not the first, moves to entry i - 1, and the
\* advance that follows returns to entry i; an advance at entry i, not the
\* last, followed by a prev returns to entry i.
C25_PrevAdvanceInverse ==
    [][/\ (Prev /\ Pos >= 2) => (Pos' = Pos - 1 /\ it_ret'.ok)
       /\ (Advance /\ it_ret.op = "prev" /\ it_ret.from >= 2)
             => (Pos' = it_ret.from /\ it_ret'.ok)
       /\ (Prev /\ it_ret.op = "advance" /\ it_ret.from >= 1 /\ it_ret.from < N)
             => (Pos' = it_ret.from /\ it_ret'.ok)]_vars

\* a prev took the cursor from the first entry of a block to the last entry
\* of the block before, which has several entries, and the advance after it
\* brought the cursor back
C25_Witness ==
    /\ it_ret.op = "advance" /\ it_ret.ok
    /\ it_data_block >= 2
    /\ it_data_state.cur = 1
    /\ Len(sst_table.blocks[it_data_block - 1]) >= 2
    /\ it_ret.from = Pos - 1

\* C26: a prev at the first entry returns false and leaves the cursor as
\* new; so does a prev on a cursor that is as new; an advance on the cursor
\* a prev at the first entry left stands at the first entry.
C26_PrevAtFirstResets ==
    [][/\ (Prev /\ (Pos = 1 \/ Fresh)) => (~it_ret'.ok /\ Fresh' /\ Pos' = 0)
       /\ (Advance /\ it_ret.op = "prev" /\ it_ret.from = 1)
             => (Pos' = 1 /\ it_ret'.ok)]_vars

\* an advance has put the cursor back at the first entry after a prev at the
\* first entry of a block of several entries
C26_Witness ==
    /\ it_ret.op = "prev" /\ it_ret.from = 1 /\ ~it_ret.ok
    /\ Fresh
    /\ Len(sst_table.blocks[1]) >= 2

\* C27: seek_to_last stands at the last entry of the table; the k-th prev
\* after it stands at the k-th entry before the last, and the prev after the
\* first entry leaves no current entry.
C27_SeekToLast ==
    it_run.base = "last" =>
        IF it_run.n < N THEN Pos = N - it_run.n ELSE Pos = 0

\* the first entry of the table with a key >= key, 0 when there is none
FirstGeq(key) ==
    LET es == StoredEntries(sst_table.blocks)
        S  == {i \in 1 .. Len(es) : KeyLeq(key, es[i].k)}
    IN  IF S = {} THEN 0 ELSE CHOOSE i \in S : \A j \in S : i <= j

\* C28: after seek(key) the cursor stands at the first entry of the table
\* with a key >= key, and has no current entry only when there is none.
C28_SeekFirstGeq ==
    it_ret.op = "seek" => Pos = FirstGeq(it_ret.key)

(***************************************************************************)
(* Claims about the readers and the manifest in memory.                    *)
(***************************************************************************)
ReaderFileNames(level) ==
    {readers_[level][j].file_name : j \in 1 .. Len(readers_[level])}

ManifestFileNames(level) ==
    {file_metas(manifest_, level)[j] : j \in 1 .. Len(file_metas(manifest_, level))}

\* C30: while the catalog is loaded, the file names of the readers of a
\* level are the file names of the file metas the manifest holds for that
\* level, whatever loads, add_readers and remove_by_file_names came before.
C30_ReadersMatchManifest ==
    cat_up => \A level \in Levels : ReaderFileNames(level) = ManifestFileNames(level)

\* readers at every level after a file was added and removed again, the
\* manifest on disk being the one in memory
C30_Witness ==
    /\ cat_up
    /\ \A level \in Levels : ReaderFileNames(level) # {}
    /\ \E f \in 1 .. (next_file - 1) : tables[f] = {}
    /\ disk_manifest = manifest_

(***************************************************************************)
(* Claims about the segments marked deleted.                               *)
(***************************************************************************)
\* C31: the segment an append writes into is not marked deleted, and the
\* replay of the WAL at hand, when it ends normally, yields the entry.
C31_AppendToLiveSegment ==
    [][\A e \in WalEntries :
          Append_(e) =>
              /\ ~segs'[Len(segs')].deleted_
              /\ LET r == WALIter_run(segs', 1, dir', content')
                 IN  r.st = "ok" => Count(e, r.out) >= 1]_vars

\* the segments marked deleted are the first ones of the list
DeletedPrefix(ss) ==
    \A i, j \in 1 .. Len(ss) : (i < j /\ ss[j].deleted_) => ss[i].deleted_

\* C32: no live segment precedes a deleted one; and a truncate that returns
\* the error of an unlink leaves the list as long as it was, on the same
\* files, with the segment whose unlink failed first among the live ones and
\* still unmarked.
C32_DeletedPrefix ==
    /\ []DeletedPrefix(segs)
    /\ [][\A n \in 0 .. MaxTruncate :
            (Truncate(n) /\ ret' = "err") =>
                /\ Len(segs') = Len(segs)
                /\ \A i \in 1 .. Len(segs) : segs'[i].num = segs[i].num
                /\ LiveIdx(segs') # {}
                /\ LET i == CHOOSE k \in LiveIdx(segs') :
                                \A j \in LiveIdx(segs') : k <= j
                   IN  /\ ~segs[i].deleted_
                       /\ segs'[i].num \notin dir'
                /\ Cardinality(LiveIdx(segs) \ LiveIdx(segs')) < n]_vars

\* a truncate has returned the error of an unlink on a list whose first
\* segment is marked deleted and whose second is live
C32_Witness ==
    /\ up
    /\ ret = "err"
    /\ Len(segs) >= 2
    /\ segs[1].deleted_
    /\ ~segs[2].deleted_

(***************************************************************************)
(* Claims about the table cursor over blocks that fail to load.            *)
(***************************************************************************)
\* the index entries after the index cursor whose block loads
Loadable ==
    {i \in it_index.next .. Len(sst_table.index) :
        sst_table.index[i].v \notin it_fail}

\* the data cursor has an entry after it in its block
MoreInBlock ==
    /\ it_data_block # 0
    /\ it_data_state.next <= Len(sst_table.blocks[it_data_block])

====
